---- MODULE Spec2Model ----
(***************************************************************************)
(* A model of the display/editing core of the terminal editor: the text    *)
(* buffer and its editing primitives, the undo/redo history, the selection *)
(* model, the bracket matcher, the canvas manager and the key dispatcher.  *)
(*                                                                         *)
(* Conventions.  A rune is a one-character string; a line and a text are   *)
(* sequences of runes (a text may hold the rune "\n").  Line and column    *)
(* indices are 0-based as in the Go source; TLA+ sequences are 1-based, so *)
(* lines[i] of the source is ls[i + 1] here.  The operations are operators *)
(* over an editor record e (the fields of the Editor struct); the state    *)
(* variables hold the fields of the one live Editor.  A Go run-time panic  *)
(* (index or slice out of range) is the field crashed = TRUE: the process  *)
(* has terminated and no later operation changes anything.                 *)
(***************************************************************************)
EXTENDS Integers, Sequences, FiniteSets, TLC

VARIABLES
    \* the fields of the live Editor
    lines, cx, cy, offsetY, dirty, language, filename,
    selecting, lineSelecting, selectStartX, selectStartY,
    undoStack, redoStack,
    contentWidth, contentHeight, height,
    prompt, lastSearch,
    canvases, currentCanvas,
    errorMessage,   \* the text of the error banner ("" when none)
    timers,         \* the banner-expiry goroutines that still sleep
    quit,           \* the flag that ends the loop of Run
    crashed,
    inflight,   \* the key event whose dispatch has begun and not ended
    \* history variables
    budget,     \* the number of key events the behaviour may dispatch
    nkeys,      \* the number of key events dispatched
    lastKey,    \* the last key event dispatched
    prevEd,     \* the editor when the last key event arrived
    opEd,       \* the editor when its first editing operation returned
    run,        \* the current run of edit keys followed by undo keys
    saved,      \* the lines last loaded from or saved to the buffer's file
    undone,     \* the editor before the last undo, while a redo may follow it
    leftAs,     \* for each canvas, the live context when it was last left
    switches,   \* the canvas the current run of Ctrl+B keys began on, and its length
    probe       \* the last result of a function applied on its own

edVars == << lines, cx, cy, offsetY, dirty, language, filename,
             selecting, lineSelecting, selectStartX, selectStartY,
             undoStack, redoStack,
             contentWidth, contentHeight, height,
             prompt, lastSearch,
             canvases, currentCanvas,
             errorMessage, timers,
             quit,
             crashed >>

vars == << edVars, inflight, budget, nkeys, lastKey, prevEd, opEd, run, saved, undone, leftAs, switches, probe >>

-----------------------------------------------------------------------------
(* Bounds of the model. *)

\* Key events per behaviour of the full key dispatcher.
MaxKeys == 3

\* Key events per behaviour of the editing and undo keys.
MaxUndoKeys == 4

\* The documents a selection is drawn over have up to MaxSelLines lines of
\* up to MaxSelLen runes.
MaxSelLines == 3
MaxSelLen == 2

\* The documents brackets are matched in have up to MaxBrLines lines of up
\* to MaxBrLen runes.
MaxBrLines == 2
MaxBrLen == 2

\* The lines given to wrapLine: up to MaxWrapLen runes, at widths up to MaxWrapW.
MaxWrapLen == 3
MaxWrapW == 4

\* The documents given to cursorDisplayPosition: up to MaxPosLines lines of up
\* to MaxPosLen runes, at widths up to MaxPosW.
MaxPosLines == 2
MaxPosLen == 3
MaxPosW == 3

\* The editors given to ensureVisible: documents of up to MaxVisLines lines of
\* up to MaxVisLen runes, widths up to MaxVisW, up to MaxVisRows visible rows,
\* scroll offsets up to MaxVisOff.
MaxVisLines == 2
MaxVisLen == 2
MaxVisW == 2
MaxVisRows == 2
MaxVisOff == 3

\* The insertions: documents of up to MaxInsLines lines of up to MaxInsLen
\* runes, texts of up to MaxInsText runes.
MaxInsLines == 2
MaxInsLen == 2
MaxInsText == 3
MaxBsLines == 3
MaxBsLen == 2
MaxTogLen == 4
MaxLoadLen == 3
MaxErrKeys == 4
MaxDwLines == 2
MaxDwLen == 3

\* The banner-expiry goroutines that may sleep at once.
MaxTimers == 3

\* Key events per behaviour with the banner-expiry goroutine.
MaxTimerKeys == 4

\* Key events per behaviour of the editing and saving keys.
MaxDirtyKeys == 4

\* Key events per behaviour of the canvas keys.
MaxCanvasKeys == 5

\* Key events per behaviour of the editor started on projects of several sizes.
MaxCapKeys == 4

\* Key events per behaviour of the editor whose file canvases are edited.
MaxFrameKeys == 5

\* Key events per behaviour of the undo and redo keys.
MaxRedoKeys == 6

\* The terminal is ScreenW cells wide and ScreenH rows high.
ScreenW == 3

ScreenH == 6

-----------------------------------------------------------------------------
(* Sequences, runes and strings. *)

NL == "\n"
CR == "\r"
TAB == "\t"

\* With(v, F) is F(v): the value v under the name F gives it.
With(v, F(_)) == F(v)

Min(a, b) == IF a < b THEN a ELSE b
Max(a, b) == IF a > b THEN a ELSE b

\* s[:n] and s[n:] of Go, for 0 <= n <= Len(s).
Take(s, n) == SubSeq(s, 1, n)
Drop(s, n) == SubSeq(s, n + 1, Len(s))
\* s[a:b] of Go, for 0 <= a <= b <= Len(s).
Slice(s, a, b) == SubSeq(s, a + 1, b)

\* unicode.IsSpace on the runes of the model's alphabet.
IsSpace(r) == r \in {" ", TAB, NL, CR}

RECURSIVE Concat(_)
\* The concatenation of a sequence of sequences.
Concat(ss) == IF ss = << >> THEN << >> ELSE Head(ss) \o Concat(Tail(ss))

RECURSIVE Join(_)
\* strings.Join(ls, "\n").
Join(ls) ==
    IF ls = << >> THEN << >>
    ELSE IF Len(ls) = 1 THEN ls[1]
    ELSE ls[1] \o << NL >> \o Join(Tail(ls))

RECURSIVE SplitFrom(_, _, _)
SplitFrom(t, i, cur) ==
    IF i > Len(t) THEN << cur >>
    ELSE IF t[i] = NL THEN << cur >> \o SplitFrom(t, i + 1, << >>)
    ELSE SplitFrom(t, i + 1, Append(cur, t[i]))

\* strings.Split(t, "\n"): always at least one part.
Split(t) == SplitFrom(t, 1, << >>)

\* strings.HasPrefix(s, p).
HasPrefix(s, p) == Len(p) <= Len(s) /\ Take(s, Len(p)) = p

RECURSIVE ReplaceAll(_, _, _)
\* strings.ReplaceAll(s, old, new) for a non-empty old: leftmost,
\* non-overlapping occurrences.
ReplaceAll(s, old, new) ==
    IF Len(s) < Len(old) THEN s
    ELSE IF HasPrefix(s, old) THEN new \o ReplaceAll(Drop(s, Len(old)), old, new)
    ELSE << Head(s) >> \o ReplaceAll(Tail(s), old, new)

\* strings.ReplaceAll(t, "\r\n", "\n").
ReplaceCRLF(t) == ReplaceAll(t, << CR, NL >>, << NL >>)

\* The two replacements pasteFromClipboard applies: "\r\n" then "\r" -> "\n".
NormalizeNewlines(t) == ReplaceAll(ReplaceCRLF(t), << CR >>, << NL >>)

\* Two runes outside ASCII: ACCENT stands for a narrow letter encoded in two
\* bytes (U+00E9), WIDE for a wide glyph encoded in three bytes (U+4E16).
ACCENT == "E"
WIDE == "W"

\* A combining mark (U+0301): two bytes, no terminal cell of its own.
MARK == "M"

\* A byte that is not part of any UTF-8 encoding (0xFF), as it stands in a
\* Go string read from a file, and the rune U+FFFD the conversion of a string
\* to runes gives for it.
BadByte == "xFF"
RuneError == "uFFFD"

\* utf8.RuneLen: the number of bytes of the rune's UTF-8 encoding.
RuneLen(r) == CASE r \in {ACCENT, MARK} -> 2 [] r \in {WIDE, RuneError} -> 3 [] OTHER -> 1

\* []rune(s): every byte that is not valid UTF-8 becomes U+FFFD.  string(runes)
\* encodes the runes again and is the sequence itself.
Runes(s) == [i \in DOMAIN s |-> IF s[i] = BadByte THEN RuneError ELSE s[i]]

\* runewidth.RuneWidth: the number of terminal cells the rune occupies.
RuneWidth(r) == CASE r = WIDE -> 2 [] r \in {MARK, CR, NL} -> 0 [] OTHER -> 1

-----------------------------------------------------------------------------
(* The editor record and Go's run-time panics. *)

\* The line at 0-based index i.
LineAt(ls, i) == ls[i + 1]

\* ls with the line at 0-based index i replaced.
SetLine(ls, i, l) == [ls EXCEPT ![i + 1] = l]

\* append(ls[:i], append([]string{l}, ls[i:]...)...): l inserted at index i.
InsertLine(ls, i, l) == Take(ls, i) \o << l >> \o Drop(ls, i)

\* append(ls[:a], ls[b:]...): the lines a .. b-1 removed.
RemoveLines(ls, a, b) == Take(ls, a) \o Drop(ls, b)

\* A run-time panic: the process terminates.
Panic(e) == [e EXCEPT !.crashed = TRUE]

\* e.lines[i] is in range.
ValidLine(e, i) == 0 <= i /\ i < Len(e.lines)

\* The snapshot type of undo.go.
EditorState(ls, x, y) == [Lines |-> ls, Cx |-> x, Cy |-> y]

-----------------------------------------------------------------------------
(* display.go: wrapping, the cursor's visual position, ensureVisible. *)

\* The cell width wrapLine gives a rune at segment-relative width cw.
wrapRuneWidth(r, cw) ==
    IF r = TAB THEN 4 - (cw % 4)
    ELSE IF IsSpace(r) THEN 1
    ELSE RuneLen(r)

RECURSIVE wrapLoop(_, _, _, _, _, _)
\* The loop of wrapLine over runes[i-1] (i is 1-based), with the segment
\* started at 1-based index start and currentWidth cw.
wrapLoop(runes, W, i, start, cw, parts) ==
    IF i > Len(runes) THEN Append(parts, SubSeq(runes, start, Len(runes)))
    ELSE With(wrapRuneWidth(runes[i], cw), LAMBDA rw :
            IF cw + rw > W /\ i > start
            THEN wrapLoop(runes, W, i + 1, i, rw,
                          Append(parts, SubSeq(runes, start, i - 1)))
            ELSE wrapLoop(runes, W, i + 1, start, cw + rw, parts))

\* wrapLine at content width W.
wrapLine(line, W) ==
    With(Runes(line), LAMBDA runes :
       IF Len(runes) = 0 THEN << << >> >>
       ELSE wrapLoop(runes, W, 1, 1, 0, << >>))

RECURSIVE segCells(_, _, _)
\* The cell offset of the first n runes of a segment: tabs go to the next
\* multiple of 4, the other runes take their display width.
segCells(seg, n, acc) ==
    IF n = 0 \/ seg = << >> THEN acc
    ELSE segCells(Tail(seg), n - 1,
                  IF Head(seg) = TAB THEN acc + (4 - (acc % 4))
                  ELSE acc + RuneWidth(Head(seg)))

RECURSIVE rowsBefore(_, _, _)
\* The number of visual rows of the lines before 0-based line n.
rowsBefore(ls, n, W) ==
    IF n = 0 THEN 0
    ELSE rowsBefore(ls, n - 1, W) + Len(wrapLine(ls[n], W))

RECURSIVE findSeg(_, _, _, _)
\* The walk of cursorDisplayPosition over the segments: the first segment
\* whose rune range holds x inclusively, as << segIndex, cells >>; << -1, 0 >>
\* when none does.
findSeg(segs, k, segStart, x) ==
    IF k > Len(segs) THEN << -1, 0 >>
    ELSE With(segStart + Len(segs[k]), LAMBDA segEnd :
            IF x >= segStart /\ x <= segEnd
            THEN << k - 1, segCells(segs[k], x - segStart, 0) >>
            ELSE findSeg(segs, k + 1, segEnd, x))

\* The clamping cursorDisplayPosition applies to cy, cx and an empty lines.
cursorClamp(e) ==
    With(IF e.cy < 0 THEN 0 ELSE e.cy, LAMBDA y1 :
    With(IF y1 >= Len(e.lines)
              THEN (IF Len(e.lines) > 0 THEN Len(e.lines) - 1 ELSE 0)
              ELSE y1, LAMBDA y2 :
    With(IF e.cx < 0 THEN 0 ELSE e.cx, LAMBDA x1 :
    With(IF Len(e.lines) = 0 THEN << << >> >> ELSE e.lines, LAMBDA ls :
    With(IF Len(e.lines) = 0 THEN 0 ELSE y2, LAMBDA y3 :
    With(IF Len(e.lines) = 0 THEN 0 ELSE x1, LAMBDA x2 :
    With(IF x2 > Len(LineAt(ls, y3)) THEN Len(LineAt(ls, y3)) ELSE x2, LAMBDA x3 :
       [e EXCEPT !.lines = ls, !.cy = y3, !.cx = x3])))))))

\* cursorDisplayPosition: the clamped editor and the cursor's absolute
\* visual row, segment index and cell column.
cursorDisplayPosition(e) ==
    With(cursorClamp(e), LAMBDA c :
    With(c.contentWidth, LAMBDA W :
    With(rowsBefore(c.lines, c.cy, W), LAMBDA totalBefore :
    With(wrapLine(LineAt(c.lines, c.cy), W), LAMBDA segs :
    With(findSeg(segs, 1, 0, c.cx), LAMBDA hit :
       IF hit[1] >= 0
       THEN [e |-> c, row |-> totalBefore + hit[1], seg |-> hit[1], col |-> hit[2]]
       ELSE [e |-> c, row |-> totalBefore + Len(segs) - 1, seg |-> Len(segs) - 1,
             col |-> segCells(segs[Len(segs)], Len(segs[Len(segs)]), 0)])))))

\* An ensureVisible that scrolls one row towards the cursor at a time.
\* An ensureVisible that puts the cursor's row at the top of the window
\* whenever it scrolls.
ensureVisibleToTop(e) ==
    IF e.crashed THEN e
    ELSE With(cursorDisplayPosition(e), LAMBDA pos :
         With(IF pos.e.contentHeight - 4 < 1 THEN 1 ELSE pos.e.contentHeight - 4,
              LAMBDA visibleRows :
            IF pos.row < pos.e.offsetY \/ pos.row >= pos.e.offsetY + visibleRows
            THEN [pos.e EXCEPT !.offsetY = pos.row]
            ELSE pos.e))

ensureVisibleStepwise(e) ==
    IF e.crashed THEN e
    ELSE With(cursorDisplayPosition(e), LAMBDA pos :
         With(IF pos.e.contentHeight - 4 < 1 THEN 1 ELSE pos.e.contentHeight - 4,
              LAMBDA visibleRows :
            IF pos.row < pos.e.offsetY THEN [pos.e EXCEPT !.offsetY = @ - 1]
            ELSE IF pos.row >= pos.e.offsetY + visibleRows THEN [pos.e EXCEPT !.offsetY = @ + 1]
            ELSE pos.e))

\* ensureVisible: normalise the document and the cursor, then scroll so
\* that the cursor's visual row is inside the window.
ensureVisible(e) ==
    IF e.crashed THEN e
    ELSE
    With(IF Len(e.lines) = 0
              THEN [e EXCEPT !.lines = << << >> >>, !.cy = 0, !.cx = 0]
              ELSE e, LAMBDA e0 :
    With(IF e0.cy < 0 THEN 0 ELSE e0.cy, LAMBDA y1 :
    With(IF y1 >= Len(e0.lines) THEN Len(e0.lines) - 1 ELSE y1, LAMBDA y2 :
    With(IF e0.cx < 0 THEN 0 ELSE e0.cx, LAMBDA x1 :
    With(IF x1 > Len(LineAt(e0.lines, y2)) THEN Len(LineAt(e0.lines, y2)) ELSE x1, LAMBDA x2 :
    With([e0 EXCEPT !.cy = y2, !.cx = x2], LAMBDA e1 :
    With(cursorDisplayPosition(e1), LAMBDA pos :
    With(pos.e, LAMBDA e2 :
    With(pos.row, LAMBDA dispIdx :
    With(IF e2.contentHeight - 4 < 1 THEN 1 ELSE e2.contentHeight - 4, LAMBDA visibleRows :
       IF dispIdx < e2.offsetY THEN [e2 EXCEPT !.offsetY = dispIdx]
       ELSE IF dispIdx >= e2.offsetY + visibleRows
            THEN [e2 EXCEPT !.offsetY = dispIdx - visibleRows + 1]
            ELSE e2))))))))))

-----------------------------------------------------------------------------
(* undo.go: the history stack and insertRune. *)

\* pushUndo: a copy of the lines and the cursor goes onto the undo stack;
\* the redo stack is emptied and the buffer is marked dirty.
pushUndo(e) ==
    IF e.crashed THEN e
    ELSE [e EXCEPT !.undoStack = Append(@, EditorState(e.lines, e.cx, e.cy)),
                   !.redoStack = << >>,
                   !.dirty = TRUE]

\* An undo that brings back the lines of the snapshot and leaves the cursor
\* where it is.
undoLinesOnly(e) ==
    IF e.crashed \/ Len(e.undoStack) = 0 THEN e
    ELSE With(e.undoStack[Len(e.undoStack)], LAMBDA lastState :
            ensureVisible(
              [e EXCEPT !.redoStack = Append(@, EditorState(e.lines, e.cx, e.cy)),
                        !.undoStack = Take(@, Len(@) - 1),
                        !.lines = lastState.Lines]))

\* undo: a no-op on an empty undo stack.
undo(e) ==
    IF e.crashed \/ Len(e.undoStack) = 0 THEN e
    ELSE With(e.undoStack[Len(e.undoStack)], LAMBDA lastState :
            ensureVisible(
              [e EXCEPT !.redoStack = Append(@, EditorState(e.lines, e.cx, e.cy)),
                        !.undoStack = Take(@, Len(@) - 1),
                        !.lines = lastState.Lines,
                        !.cx = lastState.Cx,
                        !.cy = lastState.Cy]))

\* redo: a no-op on an empty redo stack.
redo(e) ==
    IF e.crashed \/ Len(e.redoStack) = 0 THEN e
    ELSE With(e.redoStack[Len(e.redoStack)], LAMBDA nextState :
            ensureVisible(
              [e EXCEPT !.undoStack = Append(@, EditorState(e.lines, e.cx, e.cy)),
                        !.redoStack = Take(@, Len(@) - 1),
                        !.lines = nextState.Lines,
                        !.cx = nextState.Cx,
                        !.cy = nextState.Cy]))

\* insertRune: panics when lines[cy] or the slice at cx is out of range.
insertRune(e, r) ==
    With(pushUndo(e), LAMBDA e1 :
    With(IF e1.cx < 0 THEN 0 ELSE e1.cx, LAMBDA x :
       IF e1.crashed THEN e1
       ELSE IF ~ValidLine(e1, e1.cy) THEN Panic(e1)
       ELSE IF x > Len(LineAt(e1.lines, e1.cy)) THEN Panic([e1 EXCEPT !.cx = x])
       ELSE With(LineAt(e1.lines, e1.cy), LAMBDA lineRunes :
               [e1 EXCEPT
                  !.lines = SetLine(@, e1.cy, Take(lineRunes, x) \o << r >> \o Drop(lineRunes, x)),
                  !.cx = x + 1,
                  !.redoStack = << >>,
                  !.dirty = TRUE])))

\* replaceAllOccurrences: nothing happens for an empty old.
replaceAllOccurrences(e, old, new) ==
    IF e.crashed \/ old = << >> THEN e
    ELSE With(pushUndo(e), LAMBDA e1 :
            ensureVisible(
              [e1 EXCEPT !.lines = [i \in 1 .. Len(e1.lines) |->
                                       ReplaceAll(e1.lines[i], old, new)],
                         !.dirty = TRUE]))

\* showError: the banner is set and rendered, and a goroutine is started that
\* clears it after five seconds.
showError(e, msg) ==
    IF e.crashed THEN e
    ELSE cursorDisplayPosition([e EXCEPT !.errorMessage = msg, !.timers = @ + 1]).e

-----------------------------------------------------------------------------
(* display.go: the selection model. *)

startSelection(e) ==
    IF ~e.selecting
    THEN [e EXCEPT !.selecting = TRUE, !.selectStartX = e.cx, !.selectStartY = e.cy]
    ELSE e

startLineSelection(e) ==
    IF ~e.selecting
    THEN [e EXCEPT !.selecting = TRUE, !.lineSelecting = TRUE,
                   !.selectStartX = e.cx, !.selectStartY = e.cy]
    ELSE IF ~e.lineSelecting
    THEN [e EXCEPT !.lineSelecting = TRUE,
                   !.selectStartX = e.cx, !.selectStartY = e.cy]
    ELSE e

endSelection(e) == [e EXCEPT !.selecting = FALSE, !.lineSelecting = FALSE]

\* A getSelectionRange that returns the anchor first and the cursor second
\* whatever their order.
getSelectionRangeAsDragged(e) ==
    IF ~e.selecting THEN << 0, 0, 0, 0 >>
    ELSE << e.selectStartY, IF e.lineSelecting THEN 0 ELSE e.selectStartX,
            e.cy, IF e.lineSelecting THEN Len(LineAt(e.lines, e.cy)) ELSE e.cx >>

\* getSelectionRange: << startLine, startCol, endLine, endCol >>.
getSelectionRange(e) ==
    IF ~e.selecting THEN << 0, 0, 0, 0 >>
    ELSE IF e.lineSelecting
    THEN With(Min(e.selectStartY, e.cy), LAMBDA startLine :
         With(Max(e.selectStartY, e.cy), LAMBDA endLine :
         With(IF endLine < Len(e.lines) /\ endLine >= 0
                       THEN Len(LineAt(e.lines, endLine)) ELSE 0, LAMBDA endCol :
            << startLine, 0, endLine, endCol >>)))
    ELSE IF e.selectStartY > e.cy \/ (e.selectStartY = e.cy /\ e.selectStartX > e.cx)
    THEN << e.cy, e.cx, e.selectStartY, e.selectStartX >>
    ELSE << e.selectStartY, e.selectStartX, e.cy, e.cx >>

\* The clamping of the line range shared by getSelectedText (line mode),
\* deleteSelection, indentSelection and unindentSelection:
\* << startLine, endLine >>.
clampLineRange(e, sl, el) ==
    With(IF sl < 0 THEN 0 ELSE sl, LAMBDA s1 :
    With(IF el >= Len(e.lines) THEN Len(e.lines) - 1 ELSE el, LAMBDA e1 :
       IF s1 > e1 THEN << e1, s1 >> ELSE << s1, e1 >>))

\* The lines i of ls with lo <= i <= hi and i < len(ls), in order.
linesBetween(ls, lo, hi) ==
    SubSeq(ls, Max(lo, 0) + 1, Min(hi, Len(ls) - 1) + 1)

\* getSelectedText: the pieces it collects, joined with "\n".
getSelectedText(e) ==
    With(getSelectionRange(e), LAMBDA r :
    With(r[1], LAMBDA startLine :
    With(r[2], LAMBDA startCol :
    With(r[3], LAMBDA endLine :
    With(r[4], LAMBDA endCol :
       IF startLine = 0 /\ startCol = 0 /\ endLine = 0 /\ endCol = 0 THEN << >>
       ELSE IF e.lineSelecting
       THEN With(clampLineRange(e, startLine, endLine), LAMBDA c :
               Join(linesBetween(e.lines, c[1], c[2])))
       ELSE IF startLine = endLine
       THEN IF startLine < Len(e.lines)
               /\ startCol < endCol
               /\ endCol <= Len(LineAt(e.lines, startLine))
            THEN Join(<< Slice(LineAt(e.lines, startLine), startCol, endCol) >>)
            ELSE Join(<< >>)
       ELSE With(IF startLine < Len(e.lines)
                            /\ startCol < Len(LineAt(e.lines, startLine))
                         THEN << Drop(LineAt(e.lines, startLine), startCol) >>
                         ELSE << >>, LAMBDA first :
            With(linesBetween(e.lines, startLine + 1, endLine - 1), LAMBDA middle :
            With(IF endLine < Len(e.lines)
                           /\ endCol > 0
                           /\ endCol <= Len(LineAt(e.lines, endLine))
                        THEN << Take(LineAt(e.lines, endLine), endCol) >>
                        ELSE << >>, LAMBDA last :
               Join(first \o middle \o last)))))))))

\* The cursor clamping that ends deleteSelection.
deleteSelectionClamp(e) ==
    With(IF e.cy < 0 THEN 0 ELSE e.cy, LAMBDA y1 :
    With(IF y1 >= Len(e.lines)
              THEN (IF Len(e.lines) - 1 < 0 THEN 0 ELSE Len(e.lines) - 1)
              ELSE y1, LAMBDA y2 :
    With(IF e.cx < 0 THEN 0 ELSE e.cx, LAMBDA x1 :
    With(IF y2 < Len(e.lines) /\ x1 > Len(LineAt(e.lines, y2))
              THEN Len(LineAt(e.lines, y2)) ELSE x1, LAMBDA x2 :
       [e EXCEPT !.cy = y2, !.cx = x2]))))

\* The tail of deleteSelection: the selection ends, the buffer is dirty,
\* the redo stack is emptied and the cursor is clamped.
deleteSelectionFinish(e) ==
    deleteSelectionClamp(
        [endSelection(e) EXCEPT !.dirty = TRUE, !.redoStack = << >>])

\* deleteSelection in line mode: the lines startLine .. endLine are removed.
deleteSelectionLines(e, startLine, endLine) ==
    IF startLine < 0 \/ startLine > Len(e.lines) \/ endLine + 1 > Len(e.lines)
       \/ endLine + 1 < startLine
    THEN Panic(e)
    ELSE With(RemoveLines(e.lines, startLine, endLine + 1), LAMBDA ls :
         With(IF startLine >= Len(ls) THEN Len(ls) - 1 ELSE startLine, LAMBDA y :
            [e EXCEPT !.lines = ls,
                      !.cy = IF y < 0 THEN 0 ELSE y,
                      !.cx = 0]))

\* deleteSelection in character mode.
deleteSelectionChars(e, startLine, startCol0, endLine, endCol0) ==
    With(IF startCol0 < 0 THEN 0 ELSE startCol0, LAMBDA startCol :
       IF startLine = endLine
       THEN IF ValidLine(e, startLine)
            THEN With(LineAt(e.lines, startLine), LAMBDA lineRunes :
                 With(IF endCol0 > Len(lineRunes) THEN Len(lineRunes) ELSE endCol0, LAMBDA endCol :
                    [e EXCEPT
                       !.lines = IF startCol < endCol
                                 THEN SetLine(@, startLine,
                                              Take(lineRunes, startCol) \o Drop(lineRunes, endCol))
                                 ELSE @,
                       !.cx = startCol,
                       !.cy = startLine]))
            ELSE e
       ELSE IF ValidLine(e, startLine) /\ ValidLine(e, endLine)
            THEN With(LineAt(e.lines, startLine), LAMBDA firstLineRunes :
                 With(LineAt(e.lines, endLine), LAMBDA lastLineRunes :
                 With(IF endCol0 > Len(lastLineRunes)
                               THEN Len(lastLineRunes) ELSE endCol0, LAMBDA endCol :
                    IF endCol < 0 THEN Panic(e)
                    ELSE [e EXCEPT
                       !.lines = IF startCol <= Len(firstLineRunes)
                                    /\ endCol <= Len(lastLineRunes)
                                 THEN Take(@, startLine)
                                      \o << Take(firstLineRunes, startCol)
                                            \o Drop(lastLineRunes, endCol) >>
                                      \o Drop(@, endLine + 1)
                                 ELSE @,
                       !.cy = startLine,
                       !.cx = startCol])))
            ELSE e)

\* deleteSelection: a no-op without an active selection.
deleteSelection(e) ==
    IF e.crashed \/ ~e.selecting THEN e
    ELSE With(pushUndo(e), LAMBDA e1 :
         With(getSelectionRange(e1), LAMBDA r :
         With(clampLineRange(e1, r[1], r[3]), LAMBDA c :
         With(IF e1.lineSelecting
                   THEN deleteSelectionLines(e1, c[1], c[2])
                   ELSE deleteSelectionChars(e1, c[1], r[2], c[2], r[4]), LAMBDA e2 :
            IF e2.crashed THEN e2 ELSE deleteSelectionFinish(e2)))))

-----------------------------------------------------------------------------
(* display.go: the editing primitives. *)

\* The shared start of insertTextAtCursor and insertLLMResponse: cy is made
\* a line of the document (empty lines are appended) and cx is clamped.
padToCursor(e) ==
    With(IF e.cy < 0 THEN 0 ELSE e.cy, LAMBDA y :
    With(IF y >= Len(e.lines)
              THEN e.lines \o [i \in 1 .. (y + 1 - Len(e.lines)) |-> << >>]
              ELSE e.lines, LAMBDA ls :
    With(IF e.cx < 0 THEN 0 ELSE e.cx, LAMBDA x1 :
    With(IF x1 > Len(LineAt(ls, y)) THEN Len(LineAt(ls, y)) ELSE x1, LAMBDA x2 :
       [e EXCEPT !.lines = ls, !.cy = y, !.cx = x2]))))

\* An insertTextAtCursor that leaves the cursor at the end of the line the
\* last segment went to.
insertTextAtCursorToLineEnd(e, text) ==
    IF e.crashed THEN e
    ELSE With(padToCursor(pushUndo(e)), LAMBDA e1 :
         With(Split(text), LAMBDA parts :
         With(LineAt(e1.lines, e1.cy), LAMBDA lineRunes :
         With(Len(parts), LAMBDA n :
            ensureVisible(
              [e1 EXCEPT !.lines = Take(@, e1.cy)
                                   \o << Take(lineRunes, e1.cx) \o parts[1] >>
                                   \o SubSeq(parts, 2, n)
                                   \o Drop(@, e1.cy + 1),
                         !.lines[e1.cy + n] = @ \o Drop(lineRunes, e1.cx),
                         !.cy = e1.cy + (n - 1),
                         !.cx = Len(parts[n] \o Drop(lineRunes, e1.cx)),
                         !.dirty = TRUE])))))

\* insertTextAtCursor.
insertTextAtCursor(e, text) ==
    IF e.crashed THEN e
    ELSE With(padToCursor(pushUndo(e)), LAMBDA e1 :
         With(Split(text), LAMBDA parts :
         With(LineAt(e1.lines, e1.cy), LAMBDA lineRunes :
         With(Take(lineRunes, e1.cx), LAMBDA left :
         With(Drop(lineRunes, e1.cx), LAMBDA right :
         With(Len(parts), LAMBDA n :
            ensureVisible(
              IF n = 1
              THEN [e1 EXCEPT !.lines = SetLine(@, e1.cy, left \o parts[1] \o right),
                              !.cx = e1.cx + Len(parts[1]),
                              !.dirty = TRUE]
              ELSE [e1 EXCEPT !.lines = Take(@, e1.cy)
                                        \o << left \o parts[1] >>
                                        \o SubSeq(parts, 2, n - 1)
                                        \o << parts[n] \o right >>
                                        \o Drop(@, e1.cy + 1),
                              !.cy = e1.cy + (n - 1),
                              !.cx = Len(parts[n]),
                              !.dirty = TRUE])))))))

\* pasteFromClipboard with the clipboard holding text.
pasteFromClipboard(e, text) ==
    IF e.crashed THEN e
    ELSE With(Split(NormalizeNewlines(text)), LAMBDA pasteLines :
         With(pushUndo(e), LAMBDA e1 :
         With(Len(pasteLines), LAMBDA n :
            IF ~ValidLine(e1, e1.cy) THEN Panic(e1)
            ELSE IF e1.cx < 0 THEN Panic(e1)
            ELSE With(LineAt(e1.lines, e1.cy), LAMBDA lineRunes :
                 With(IF e1.cx > Len(lineRunes) THEN Len(lineRunes) ELSE e1.cx, LAMBDA cursorX :
                 With(Take(lineRunes, cursorX), LAMBDA leftPart :
                 With(Drop(lineRunes, cursorX), LAMBDA rightPart :
                    ensureVisible(
                      IF n = 1
                      THEN [e1 EXCEPT
                              !.lines = SetLine(@, e1.cy, leftPart \o pasteLines[1] \o rightPart),
                              !.cx = cursorX + Len(pasteLines[1]),
                              !.dirty = TRUE,
                              !.redoStack = << >>]
                      ELSE [e1 EXCEPT
                              !.lines = Take(@, e1.cy)
                                        \o << leftPart \o pasteLines[1] >>
                                        \o SubSeq(pasteLines, 2, n - 1)
                                        \o << pasteLines[n] \o rightPart >>
                                        \o Drop(@, e1.cy + 1),
                              !.cy = e1.cy + (n - 1),
                              !.cx = Len(pasteLines[n]),
                              !.dirty = TRUE,
                              !.redoStack = << >>]))))))))

\* insertLLMResponse (contextMode is never set, so the contextual variant is
\* not reached): the response's first line goes between the two halves of
\* the current line, the other lines follow it.
insertLLMResponse(e, resp0) ==
    IF e.crashed THEN e
    ELSE With(ReplaceCRLF(resp0), LAMBDA resp :
         With(Split(resp), LAMBDA respLines :
         With(Len(respLines), LAMBDA n :
            IF \A i \in 1 .. Len(resp) : IsSpace(resp[i])
            THEN ensureVisible([e EXCEPT !.dirty = TRUE])
            ELSE With(IF e.cy < 0 THEN [e EXCEPT !.cy = 0] ELSE e, LAMBDA e1 :
                 With(IF e1.cy >= Len(e1.lines)
                            THEN e1.lines \o [i \in 1 .. (e1.cy + 1 - Len(e1.lines)) |-> << >>]
                            ELSE e1.lines, LAMBDA ls0 :
                 With(LineAt(ls0, e1.cy), LAMBDA lineRunes :
                 With(IF e1.cx > Len(lineRunes) THEN Len(lineRunes) ELSE e1.cx, LAMBDA x :
                    IF x < 0 THEN Panic(e1)
                    ELSE With(Take(lineRunes, x), LAMBDA left :
                         With(Drop(lineRunes, x), LAMBDA right :
                         With(Take(ls0, e1.cy)
                                    \o << left \o respLines[1] \o right >>
                                    \o Tail(respLines)
                                    \o Drop(ls0, e1.cy + 1), LAMBDA ls1 :
                         With(e1.cy + n - 1, LAMBDA y :
                            ensureVisible(
                              [e1 EXCEPT !.lines = ls1,
                                         !.cy = y,
                                         !.cx = Len(LineAt(ls1, y)),
                                         !.dirty = TRUE]))))))))))))

\* backspace.
\* A backspace that takes its undo snapshot before looking at the cursor.
backspaceSnapshotFirst(e) ==
    IF e.crashed THEN e
    ELSE With(pushUndo(e), LAMBDA e1 :
         IF e1.cx > 0
         THEN [e1 EXCEPT
                 !.lines = SetLine(@, e1.cy,
                                   Take(LineAt(e1.lines, e1.cy), e1.cx - 1)
                                     \o Drop(LineAt(e1.lines, e1.cy), e1.cx)),
                 !.cx = e1.cx - 1]
         ELSE IF e1.cy > 0
         THEN [e1 EXCEPT
                 !.lines = RemoveLines(SetLine(@, e1.cy - 1,
                                               LineAt(e1.lines, e1.cy - 1)
                                                 \o LineAt(e1.lines, e1.cy)),
                                       e1.cy, e1.cy + 1),
                 !.cy = e1.cy - 1,
                 !.cx = Len(LineAt(e1.lines, e1.cy - 1))]
         ELSE e1)

backspace(e) ==
    IF e.crashed THEN e
    ELSE IF e.cx > 0
    THEN With(pushUndo(e), LAMBDA e1 :
            IF ~ValidLine(e1, e1.cy) \/ e1.cx > Len(LineAt(e1.lines, e1.cy))
            THEN Panic(e1)
            ELSE With(LineAt(e1.lines, e1.cy), LAMBDA lineRunes :
                    [e1 EXCEPT
                       !.lines = SetLine(@, e1.cy,
                                         Take(lineRunes, e1.cx - 1) \o Drop(lineRunes, e1.cx)),
                       !.cx = e1.cx - 1,
                       !.dirty = TRUE]))
    ELSE IF e.cy > 0
    THEN With(pushUndo(e), LAMBDA e1 :
            IF ~ValidLine(e1, e1.cy) THEN Panic(e1)
            ELSE With(LineAt(e1.lines, e1.cy - 1), LAMBDA prev :
                 With(LineAt(e1.lines, e1.cy), LAMBDA cur :
                    [e1 EXCEPT
                       !.lines = RemoveLines(SetLine(@, e1.cy - 1, prev \o cur),
                                             e1.cy, e1.cy + 1),
                       !.cy = e1.cy - 1,
                       !.cx = Len(prev),
                       !.dirty = TRUE])))
    ELSE e

\* newline.
newline(e) ==
    IF e.crashed THEN e
    ELSE With(pushUndo(e), LAMBDA e1 :
            IF ~ValidLine(e1, e1.cy) THEN Panic(e1)
            ELSE IF e1.cx < 0 \/ e1.cx > Len(LineAt(e1.lines, e1.cy)) THEN Panic(e1)
            ELSE With(LineAt(e1.lines, e1.cy), LAMBDA lineRunes :
                    [e1 EXCEPT
                       !.lines = InsertLine(SetLine(@, e1.cy, Take(lineRunes, e1.cx)),
                                            e1.cy + 1, Drop(lineRunes, e1.cx)),
                       !.cy = e1.cy + 1,
                       !.cx = 0,
                       !.dirty = TRUE]))

\* cutLine: the current line is removed; a document left without lines
\* becomes one empty line.
cutLine(e) ==
    IF e.crashed \/ ~ValidLine(e, e.cy) THEN e
    ELSE With(pushUndo(e), LAMBDA e1 :
         With(RemoveLines(e1.lines, e1.cy, e1.cy + 1), LAMBDA ls :
         With(IF e1.cy >= Len(ls) /\ Len(ls) > 0 THEN Len(ls) - 1 ELSE e1.cy, LAMBDA y :
            ensureVisible(
              IF Len(ls) = 0
              THEN [e1 EXCEPT !.lines = << << >> >>, !.cy = 0, !.cx = 0, !.dirty = TRUE]
              ELSE [e1 EXCEPT !.lines = ls,
                              !.cy = y,
                              !.cx = IF e1.cx > Len(LineAt(ls, y))
                                     THEN Len(LineAt(ls, y)) ELSE e1.cx,
                              !.dirty = TRUE]))))

RECURSIVE skipWhile(_, _, _)
\* The first 0-based index >= i at which runes stops being space (sp) or
\* non-space (~sp); Len(runes) when it never does.
skipWhile(runes, i, sp) ==
    IF i < Len(runes) /\ (IsSpace(runes[i + 1]) <=> sp)
    THEN skipWhile(runes, i + 1, sp)
    ELSE i

RECURSIVE wordStart(_, _)
\* The 0-based index of the first rune of the run of non-space runes that
\* ends at index start.
wordStart(runes, start) ==
    IF start > 0 /\ ~IsSpace(runes[start])
    THEN wordStart(runes, start - 1)
    ELSE start

\* The merge of line cy + 1 onto line cy that deleteWordAfterCursor makes.
joinNextLine(e) ==
    SetLine(RemoveLines(e.lines, e.cy + 1, e.cy + 2), e.cy,
            LineAt(e.lines, e.cy) \o LineAt(e.lines, e.cy + 1))

\* deleteWordAfterCursor.
deleteWordAfterCursor(e) ==
    IF e.crashed \/ ~ValidLine(e, e.cy) THEN e
    ELSE With(pushUndo(e), LAMBDA e0 :
         With(IF e0.cx < 0 THEN [e0 EXCEPT !.cx = 0] ELSE e0, LAMBDA e1 :
         With(LineAt(e1.lines, e1.cy), LAMBDA runes :
         With(e1.cx, LAMBDA idx :
            IF idx >= Len(runes)
            THEN IF e1.cy < Len(e1.lines) - 1
                 THEN ensureVisible([e1 EXCEPT !.lines = joinNextLine(e1), !.dirty = TRUE])
                 ELSE e1
            ELSE IF idx > 0 /\ ~IsSpace(runes[idx])
            THEN With(wordStart(runes, idx - 1), LAMBDA start :
                 With(skipWhile(runes, idx, FALSE), LAMBDA end :
                    ensureVisible(
                      [e1 EXCEPT !.lines = SetLine(@, e1.cy, Take(runes, start) \o Drop(runes, end)),
                                 !.cx = start,
                                 !.dirty = TRUE])))
            ELSE With(skipWhile(runes, idx, TRUE), LAMBDA i :
                    IF i < Len(runes)
                    THEN With(skipWhile(runes, i, FALSE), LAMBDA end :
                            ensureVisible(
                              [e1 EXCEPT !.lines = SetLine(@, e1.cy, Take(runes, i) \o Drop(runes, end)),
                                         !.cx = i,
                                         !.dirty = TRUE]))
                    ELSE IF e1.cy < Len(e1.lines) - 1
                    THEN ensureVisible(
                           [e1 EXCEPT !.lines = joinNextLine(e1),
                                      !.cx = Len(runes),
                                      !.dirty = TRUE])
                    ELSE e1)))))

-----------------------------------------------------------------------------
(* display.go: indentation and comment toggling. *)

LangUnknown == "unknown"
LangPython == "python"

\* getLineCommentPrefix for the languages of the model; << >> is "no prefix".
getLineCommentPrefix(lang) == IF lang = LangPython THEN << "#", " " >> ELSE << >>

\* e.lines with f applied to the lines lo .. hi (0-based, all in range).
mapLines(ls, lo, hi, f(_)) ==
    [i \in 1 .. Len(ls) |-> IF lo + 1 <= i /\ i <= hi + 1 THEN f(ls[i]) ELSE ls[i]]

indentLine(l) == << " ", " ", " ", " " >> \o l

\* The number of leading spaces of l, at most 4.
leadingSpaces(l) ==
    IF Len(l) >= 1 /\ l[1] = " "
    THEN IF Len(l) >= 2 /\ l[2] = " "
         THEN IF Len(l) >= 3 /\ l[3] = " "
              THEN IF Len(l) >= 4 /\ l[4] = " " THEN 4 ELSE 3
              ELSE 2
         ELSE 1
    ELSE 0

unindentLine(l) ==
    IF leadingSpaces(l) = 4 THEN Drop(l, 4)
    ELSE IF Len(l) >= 1 /\ l[1] = TAB THEN Drop(l, 1)
    ELSE Drop(l, leadingSpaces(l))

\* indentSelection: the selection stays active.
indentSelection(e) ==
    IF e.crashed \/ ~e.selecting THEN e
    ELSE With(pushUndo(e), LAMBDA e1 :
         With(getSelectionRange(e1), LAMBDA r :
         With(clampLineRange(e1, r[1], r[3]), LAMBDA c :
            IF c[1] < 0 THEN Panic(e1)
            ELSE [e1 EXCEPT !.lines = mapLines(@, c[1], c[2], indentLine),
                            !.dirty = TRUE])))

\* unindentSelection: the selection stays active.
unindentSelection(e) ==
    IF e.crashed \/ ~e.selecting THEN e
    ELSE With(pushUndo(e), LAMBDA e1 :
         With(getSelectionRange(e1), LAMBDA r :
         With(clampLineRange(e1, r[1], r[3]), LAMBDA c :
            IF c[1] < 0 THEN Panic(e1)
            ELSE [e1 EXCEPT !.lines = mapLines(@, c[1], c[2], unindentLine),
                            !.dirty = TRUE])))

RECURSIVE leadOf(_, _)
\* The number of leading spaces and tabs of l, counted from index lead.
leadOf(l, lead) ==
    IF lead < Len(l) /\ l[lead + 1] \in {" ", TAB} THEN leadOf(l, lead + 1) ELSE lead

\* The line has the comment prefix after its leading white space.
isCommented(l, prefix) ==
    With(leadOf(l, 0), LAMBDA lead :
       lead + Len(prefix) <= Len(l) /\ Slice(l, lead, lead + Len(prefix)) = prefix)

uncommentLine(l, prefix) ==
    With(leadOf(l, 0), LAMBDA lead :
       IF isCommented(l, prefix)
       THEN Take(l, lead) \o Drop(l, lead + Len(prefix))
       ELSE l)

commentLine(l, prefix) ==
    With(leadOf(l, 0), LAMBDA lead :
       IF isCommented(l, prefix) THEN l
       ELSE Take(l, lead) \o prefix \o Drop(l, lead))

\* toggleCommentSelection: only with a line-mode selection; panics when a
\* line of the range is not a line of the document.
toggleCommentSelection(e) ==
    IF e.crashed \/ ~e.selecting \/ ~e.lineSelecting THEN e
    ELSE With(getLineCommentPrefix(e.language), LAMBDA prefix :
         With(getSelectionRange(e), LAMBDA r :
         With(Min(r[1], r[3]), LAMBDA lo :
         With(Max(r[1], r[3]), LAMBDA hi :
            IF prefix = << >> THEN e
            ELSE With(pushUndo(e), LAMBDA e1 :
                    IF lo < 0 \/ hi >= Len(e1.lines) THEN Panic(e1)
                    ELSE With(\A i \in lo .. hi : isCommented(LineAt(e1.lines, i), prefix), LAMBDA allCommented :
                         LET uncomment(l) == uncommentLine(l, prefix) IN
                         LET comment(l) == commentLine(l, prefix) IN
                            endSelection(ensureVisible(
                              [e1 EXCEPT
                                 !.lines = IF allCommented
                                           THEN mapLines(@, lo, hi, uncomment)
                                           ELSE mapLines(@, lo, hi, comment),
                                 !.dirty = TRUE]))))))))

\* toggleCommentLine: the current line gains or loses the prefix.
toggleCommentLine(e) ==
    IF e.crashed \/ ~ValidLine(e, e.cy) THEN e
    ELSE With(LineAt(e.lines, e.cy), LAMBDA line :
         With(getLineCommentPrefix(e.language), LAMBDA prefix :
         With(leadOf(line, 0), LAMBDA lead :
            IF prefix = << >> THEN e
            ELSE ensureVisible(
                   [e EXCEPT
                      !.lines = SetLine(@, e.cy,
                                  IF isCommented(line, prefix)
                                  THEN Take(line, lead) \o Drop(line, lead + Len(prefix))
                                  ELSE Take(line, lead) \o prefix \o Drop(line, lead)),
                      !.dirty = TRUE]))))

-----------------------------------------------------------------------------
(* canvas.go: the canvas manager. *)

MaxCanvases == 100

\* The fields of the Canvas struct the model keeps.
Canvas(fn, ls, x, y, off, d, lang, us, rs) ==
    [filename |-> fn, lines |-> ls, cx |-> x, cy |-> y, offsetY |-> off,
     dirty |-> d, language |-> lang, undoStack |-> us, redoStack |-> rs]

\* syncCanvasToEditor: the stored canvas becomes the live context.
syncCanvasToEditor(e) ==
    IF e.crashed \/ e.currentCanvas \notin DOMAIN e.canvases THEN e
    ELSE With(e.canvases[e.currentCanvas], LAMBDA canvas :
            [e EXCEPT !.filename = canvas.filename,
                      !.lines = canvas.lines,
                      !.cx = canvas.cx,
                      !.cy = canvas.cy,
                      !.offsetY = canvas.offsetY,
                      !.dirty = canvas.dirty,
                      !.language = canvas.language,
                      !.undoStack = canvas.undoStack,
                      !.redoStack = canvas.redoStack])

\* syncEditorToCanvas: the live context is stored in the active canvas.
syncEditorToCanvas(e) ==
    IF e.crashed \/ e.currentCanvas \notin DOMAIN e.canvases THEN e
    ELSE [e EXCEPT !.canvases[e.currentCanvas] =
                       Canvas(e.filename, e.lines, e.cx, e.cy, e.offsetY, e.dirty,
                              e.language, e.undoStack, e.redoStack)]

\* The smallest occupied id greater than cur; 0 when there is none.
nextCanvasIdNoWrap(ids, cur) ==
    With({i \in ids : i > cur}, LAMBDA after :
       IF after = {} THEN 0 ELSE CHOOSE i \in after : \A j \in after : i <= j)

\* The id the loop of switchToNextCanvas stops at: the first occupied id in
\* the cyclic order that starts after cur; 0 when no canvas exists.
nextCanvasId(ids, cur) ==
    LET cand(k) == ((cur + k) % MaxCanvases) + 1 IN
    With({k \in 0 .. (MaxCanvases - 1) : cand(k) \in ids}, LAMBDA ks :
       IF ks = {} THEN 0
       ELSE cand(CHOOSE k \in ks : \A j \in ks : k <= j))

\* switchToNextCanvas.
switchToNextCanvas(e) ==
    IF e.crashed THEN e
    ELSE With(syncEditorToCanvas(e), LAMBDA e1 :
         With(nextCanvasId(DOMAIN e1.canvases, e1.currentCanvas), LAMBDA nextCanvas :
            IF nextCanvas \in DOMAIN e1.canvases
            THEN ensureVisible(syncCanvasToEditor([e1 EXCEPT !.currentCanvas = nextCanvas]))
            ELSE e1))

\* The notices of switchToNextCanvas.
CanvasNotice(n) == << "Canvas", n >>

NoOtherCanvases == << "There are no other canvases" >>

\* The text switchToNextCanvas passes to statusMessage.
switchToNextCanvasNotice(e) ==
    With(nextCanvasId(DOMAIN e.canvases, e.currentCanvas), LAMBDA nextCanvas :
       IF nextCanvas \in DOMAIN e.canvases THEN CanvasNotice(nextCanvas) ELSE NoOtherCanvases)

\* The lowest id in 1 .. MaxCanvases that holds no canvas (1 when all do).
freeCanvasId(ids) ==
    With({i \in 1 .. MaxCanvases : i \notin ids}, LAMBDA free :
       IF free = {} THEN 1 ELSE CHOOSE i \in free : \A j \in free : i <= j)

\* The canvas map with canvas c stored under id.
putCanvas(cs, id, c) == [i \in DOMAIN cs \cup {id} |-> IF i = id THEN c ELSE cs[i]]

\* createNewCanvas without its capacity test.
createNewCanvasUnchecked(e) ==
    IF e.crashed THEN e
    ELSE With(syncEditorToCanvas(e), LAMBDA e1 :
         With(freeCanvasId(DOMAIN e1.canvases), LAMBDA newCanvasNum :
         With(Canvas(<< >>, << << >> >>, 0, 0, 0, FALSE, LangUnknown, << >>, << >>), LAMBDA blank :
            ensureVisible(syncCanvasToEditor(
                [e1 EXCEPT !.canvases = putCanvas(@, newCanvasNum, blank),
                           !.currentCanvas = newCanvasNum])))))

\* createNewCanvas: nothing but an error banner at full capacity.
createNewCanvas(e) ==
    IF e.crashed THEN e
    ELSE IF Cardinality(DOMAIN e.canvases) >= MaxCanvases
    THEN showError(e, "capacity")
    ELSE With(syncEditorToCanvas(e), LAMBDA e1 :
         With(freeCanvasId(DOMAIN e1.canvases), LAMBDA newCanvasNum :
         With(Canvas(<< >>, << << >> >>, 0, 0, 0, FALSE, LangUnknown, << >>, << >>), LAMBDA blank :
            ensureVisible(syncCanvasToEditor(
                [e1 EXCEPT !.canvases = putCanvas(@, newCanvasNum, blank),
                           !.currentCanvas = newCanvasNum])))))

-----------------------------------------------------------------------------
(* brackets.go: the bracket matcher.  A BracketPair is the tuple
   <<OpenLine, OpenCol, CloseLine, CloseCol>>; nil is the empty tuple. *)

NoPair == << >>

BracketPair(ol, oc, cl, cc) == <<ol, oc, cl, cc>>

openBrackets == {"(", "[", "{"}

closeBrackets == {")", "]", "}"}

\* The partner of a bracket rune.
bracketPartner(r) ==
    CASE r = "(" -> ")" [] r = "[" -> "]" [] r = "{" -> "}"
      [] r = ")" -> "(" [] r = "]" -> "[" [] r = "}" -> "{"
      [] OTHER -> r

\* The loops of findClosingBracket: forward over the runes of line lineIdx
\* from colIdx, then over the following lines from column 0.
RECURSIVE closingLoop(_, _, _, _, _, _, _, _)
closingLoop(ls, startLine, startCol, opening, closing, lineIdx, colIdx, nesting) ==
    IF lineIdx >= Len(ls) THEN NoPair
    ELSE With(LineAt(ls, lineIdx), LAMBDA runes :
            IF colIdx >= Len(runes)
            THEN closingLoop(ls, startLine, startCol, opening, closing, lineIdx + 1, 0, nesting)
            ELSE With(runes[colIdx + 1], LAMBDA char :
                    IF char = opening
                    THEN closingLoop(ls, startLine, startCol, opening, closing,
                                     lineIdx, colIdx + 1, nesting + 1)
                    ELSE IF char = closing
                    THEN IF nesting - 1 = 0
                         THEN BracketPair(startLine, startCol, lineIdx, colIdx)
                         ELSE closingLoop(ls, startLine, startCol, opening, closing,
                                          lineIdx, colIdx + 1, nesting - 1)
                    ELSE closingLoop(ls, startLine, startCol, opening, closing,
                                     lineIdx, colIdx + 1, nesting)))

\* A forward scan that takes the first closing bracket it meets, whatever
\* was opened in between.
findClosingBracketFirst(ls, startLine, startCol, opening, closing) ==
    IF startLine < 0 \/ startLine >= Len(ls) THEN NoPair
    ELSE IF startCol < 0 \/ startCol >= Len(LineAt(ls, startLine)) THEN NoPair
    ELSE closingLoop(ls, startLine, startCol, "", closing, startLine, startCol + 1, 1)

findClosingBracket(ls, startLine, startCol, opening, closing) ==
    IF startLine < 0 \/ startLine >= Len(ls) THEN NoPair
    ELSE IF startCol < 0 \/ startCol >= Len(LineAt(ls, startLine)) THEN NoPair
    ELSE closingLoop(ls, startLine, startCol, opening, closing, startLine, startCol + 1, 1)

\* The inner loop of findOpeningBracket.  runes is the line the outer loop
\* read before entering; the loop keeps reading it after it has moved lineIdx
\* to an earlier line.  The result is either the pair found or the loop
\* variables at the exit.
RECURSIVE openingInner(_, _, _, _, _, _, _, _, _)
openingInner(ls, runes, startLine, startCol, opening, closing, lineIdx, colIdx, nesting) ==
    IF colIdx < 0 \/ colIdx >= Len(runes)
    THEN [found |-> FALSE, pair |-> NoPair, lineIdx |-> lineIdx, colIdx |-> colIdx,
          nesting |-> nesting]
    ELSE With(runes[colIdx + 1], LAMBDA char :
         With(IF char = closing THEN nesting + 1
                   ELSE IF char = opening THEN nesting - 1 ELSE nesting, LAMBDA n1 :
            IF char # closing /\ char = opening /\ n1 = 0
            THEN [found |-> TRUE, pair |-> BracketPair(lineIdx, colIdx, startLine, startCol),
                  lineIdx |-> lineIdx, colIdx |-> colIdx, nesting |-> n1]
            ELSE With(colIdx - 1, LAMBDA c1 :
                    IF c1 < 0 /\ lineIdx > 0
                    THEN openingInner(ls, runes, startLine, startCol, opening, closing,
                                      lineIdx - 1, Len(LineAt(ls, lineIdx - 1)) - 1, n1)
                    ELSE openingInner(ls, runes, startLine, startCol, opening, closing,
                                      lineIdx, c1, n1))))

\* The outer loop of findOpeningBracket.
RECURSIVE openingLoop(_, _, _, _, _, _, _, _)
openingLoop(ls, startLine, startCol, opening, closing, lineIdx, colIdx, nesting) ==
    IF lineIdx < 0 \/ lineIdx >= Len(ls) THEN NoPair
    ELSE IF colIdx < 0
    THEN With(lineIdx - 1, LAMBDA l1 :
         With(IF l1 >= 0 /\ l1 < Len(ls) THEN Len(LineAt(ls, l1)) - 1 ELSE colIdx, LAMBDA c1 :
            openingLoop(ls, startLine, startCol, opening, closing, l1, c1, nesting)))
    ELSE With(openingInner(ls, LineAt(ls, lineIdx), startLine, startCol, opening,
                               closing, lineIdx, colIdx, nesting), LAMBDA r :
            IF r.found THEN r.pair
            ELSE With(r.lineIdx - 1, LAMBDA l1 :
                 With(IF l1 >= 0 /\ l1 < Len(ls) THEN Len(LineAt(ls, l1)) - 1
                           ELSE r.colIdx, LAMBDA c1 :
                    openingLoop(ls, startLine, startCol, opening, closing, l1, c1, r.nesting))))

findOpeningBracket(ls, startLine, startCol, opening, closing) ==
    IF startLine < 0 \/ startLine >= Len(ls) THEN NoPair
    ELSE IF startCol < 0 \/ startCol >= Len(LineAt(ls, startLine)) THEN NoPair
    ELSE openingLoop(ls, startLine, startCol, opening, closing, startLine, startCol - 1, 1)

findMatchingBracket(ls, lineIdx, colIdx) ==
    IF lineIdx < 0 \/ lineIdx >= Len(ls) THEN NoPair
    ELSE IF colIdx < 0 \/ colIdx >= Len(LineAt(ls, lineIdx)) THEN NoPair
    ELSE With(LineAt(ls, lineIdx)[colIdx + 1], LAMBDA char :
            IF char \in openBrackets
            THEN findClosingBracket(ls, lineIdx, colIdx, char, bracketPartner(char))
            ELSE IF char \in closeBrackets
            THEN findOpeningBracket(ls, lineIdx, colIdx, bracketPartner(char), char)
            ELSE NoPair)

-----------------------------------------------------------------------------
(* display.go: handleKey, one operator per key.  Each returns the editor
   when the dispatch has returned (e), the editor as it was when the first
   editing operation the key invoked returned (op; equal to e when the key
   invokes none), the number of editing operations invoked (ops) and the
   kind of the key.  The collaborators' answers (clipboard, LLM, file
   system) are arguments. *)

\* The prompt field: no prompt, or the kind of the prompt that is open
\* (which fixes its callback) with what the callback captured.
NoPrompt == [kind |-> "none", hasSelection |-> FALSE]

Prompt(kind, hasSelection) == [kind |-> kind, hasSelection |-> hasSelection]

Handled(op, e, ops, kind) == [op |-> op, e |-> e, ops |-> ops, kind |-> kind]

\* shouldAutoCloseBracket.
shouldAutoCloseBracket(e) ==
    IF ~ValidLine(e, e.cy) THEN FALSE
    ELSE With(LineAt(e.lines, e.cy), LAMBDA runes :
            IF e.cx >= Len(runes) THEN TRUE
            ELSE runes[e.cx + 1] \in {" ", TAB, ")", "]", "}", ";", ",", ":"})

\* getClosingBracket; the empty string stands for the rune 0.
getClosingBracket(r) ==
    CASE r = "(" -> ")" [] r = "[" -> "]" [] r = "{" -> "}"
      [] r = "\"" -> "\"" [] r = "'" -> "'" [] OTHER -> ""

\* A printable rune r (default branch of the key switch).
keyRune(e, r) ==
    With(IF e.selecting THEN deleteSelection(e) ELSE e, LAMBDA e1 :
    With(IF e.selecting THEN 1 ELSE 0, LAMBDA n0 :
       IF r \in {"(", "[", "{", "\"", "'"} /\ ~e1.crashed
          /\ shouldAutoCloseBracket(e1) /\ getClosingBracket(r) # ""
       THEN With(insertTextAtCursor(e1, << r, getClosingBracket(r) >>), LAMBDA e2 :
               Handled(IF e.selecting THEN e1 ELSE e2,
                       [e2 EXCEPT !.cx = @ - 1], n0 + 1, "edit"))
       ELSE With(insertRune(e1, r), LAMBDA e2 :
               Handled(IF e.selecting THEN e1 ELSE e2, ensureVisible(e2), n0 + 1, "edit"))))

\* Enter.
keyEnter(e) ==
    With(IF e.selecting THEN deleteSelection(e) ELSE e, LAMBDA e1 :
    With(newline(e1), LAMBDA e2 :
       Handled(IF e.selecting THEN e1 ELSE e2, ensureVisible(e2),
               IF e.selecting THEN 2 ELSE 1, "edit")))

\* Backspace: with a remembered search and the cursor at the start of the
\* document it only forgets the search.
keyBackspace(e) ==
    IF e.lastSearch # << >> /\ e.cx = 0 /\ e.cy = 0 /\ ~e.selecting
    THEN With([e EXCEPT !.lastSearch = << >>], LAMBDA e1 :    Handled(e1, e1, 0, "other"))
    ELSE With(IF e.selecting THEN deleteSelection(e) ELSE backspace(e), LAMBDA e1 :
            Handled(e1, ensureVisible(e1), 1, "edit"))

\* Delete.
keyDelete(e) ==
    With(deleteWordAfterCursor(e), LAMBDA e1 :    Handled(e1, ensureVisible(e1), 1, "edit"))

\* Ctrl+X: the selection (when its text is not empty and the clipboard
\* accepts it) or the current line.
keyCtrlX(e, clipOk) ==
    IF e.selecting
    THEN IF getSelectedText(e) # << >> /\ clipOk
         THEN With(deleteSelection(e), LAMBDA e1 :    Handled(e1, ensureVisible(e1), 1, "edit"))
         ELSE Handled(e, ensureVisible(e), 0, "other")
    ELSE With(cutLine(e), LAMBDA e1 :    Handled(e1, ensureVisible(e1), 1, "edit"))

\* Ctrl+V with the clipboard holding text.
keyCtrlV(e, text) ==
    With(IF e.selecting THEN deleteSelection(e) ELSE e, LAMBDA e1 :
    With(pasteFromClipboard(e1, text), LAMBDA e2 :
       Handled(IF e.selecting THEN e1 ELSE e2, ensureVisible(e2),
               IF e.selecting THEN 2 ELSE 1, "edit")))

\* Ctrl+V when the clipboard cannot be read: pasteFromClipboard returns at
\* once.
keyCtrlVError(e) ==
    With(IF e.selecting THEN deleteSelection(e) ELSE e, LAMBDA e1 :
       Handled(e1, ensureVisible(e1), IF e.selecting THEN 2 ELSE 1, "edit"))

\* Ctrl+Z and Ctrl+E.
keyCtrlZ(e) ==
    With(undo(e), LAMBDA e1 :    Handled(e1, ensureVisible(endSelection(e1)), 0, "undo"))

keyCtrlE(e) ==
    With(redo(e), LAMBDA e1 :    Handled(e1, ensureVisible(endSelection(e1)), 0, "redo"))

\* Ctrl+K.
keyCtrlK(e) ==
    With(IF e.selecting /\ e.lineSelecting
              THEN toggleCommentSelection(e) ELSE toggleCommentLine(e), LAMBDA e1 :
       Handled(e1, ensureVisible(e1), 0, "change"))

\* Ctrl+U and Ctrl+Y.
keyCtrlU(e) ==
    With(indentSelection(e), LAMBDA e1 :    Handled(e1, ensureVisible(e1), 0, "change"))

keyCtrlY(e) ==
    With(unindentSelection(e), LAMBDA e1 :    Handled(e1, ensureVisible(e1), 0, "change"))

\* Ctrl+R when the analysis and the run (or the error analysis) answered:
\* text is what handleRunCode passes to insertLLMResponse.
\* runFailed: the run failed and text is the corrections the LLM suggests.
keyCtrlR(e, text, runFailed) ==
    With(insertLLMResponse(IF runFailed THEN showError(e, "run") ELSE e, text), LAMBDA e1 :
       Handled(e1, ensureVisible(e1), 0, "change"))

\* Ctrl+R when the LLM failed: only the error banner changes.  runFailed:
\* the run had failed before, with a banner of its own.
keyCtrlRError(e, runFailed) ==
    With(showError(IF runFailed THEN showError(e, "run") ELSE e, "llm"), LAMBDA e1 :
       Handled(e1, ensureVisible(e1), 0, "other"))

\* Up and Down (Shift is not looked at).
keyUp(e) ==
    With(IF e.cy > 0
              THEN [e EXCEPT !.cy = e.cy - 1,
                             !.cx = Min(e.cx, Len(LineAt(e.lines, e.cy - 1)))]
              ELSE e, LAMBDA e1 :
    With(ensureVisible(e1), LAMBDA e2 :
       Handled(e2, ensureVisible(e2), 0, "move")))

\* Down, in two parts: e.cy++ when there is a line below, then the rest of
\* the case (moved is whether the first part moved the cursor).
keyDownMoves(e) == e.cy < Len(e.lines) - 1

keyDownStep(e) == IF keyDownMoves(e) THEN [e EXCEPT !.cy = e.cy + 1] ELSE e

keyDownRest(e, moved) ==
    IF moved /\ ~ValidLine(e, e.cy)
    THEN With(Panic(e), LAMBDA e1 : Handled(e1, e1, 0, "move"))
    ELSE With(IF moved THEN [e EXCEPT !.cx = Min(e.cx, Len(LineAt(e.lines, e.cy)))]
                   ELSE e, LAMBDA e1 :
         With(ensureVisible(e1), LAMBDA e2 :
            Handled(e2, ensureVisible(e2), 0, "move")))

keyDown(e) == keyDownRest(keyDownStep(e), keyDownMoves(e))

\* What a cursor key does to the selection before it moves: Shift starts
\* one (sel is startSelection or startLineSelection), no Shift ends it.
moveSelection(e, shiftPressed, sel(_)) ==
    IF shiftPressed THEN sel(e)
    ELSE IF e.selecting THEN endSelection(e) ELSE e

\* Left: Shift starts a line selection.
keyLeft(e, shiftPressed) ==
    With(IF e.cx > 0
              THEN [moveSelection(e, shiftPressed, startLineSelection) EXCEPT !.cx = e.cx - 1]
              ELSE IF e.cy > 0
              THEN ensureVisible(
                     [moveSelection(e, shiftPressed, startLineSelection)
                        EXCEPT !.cy = e.cy - 1, !.cx = Len(LineAt(e.lines, e.cy - 1))])
              ELSE IF e.selecting THEN endSelection(e) ELSE e, LAMBDA e1 :
       Handled(e1, ensureVisible(e1), 0, "move"))

\* Right: Shift starts a character selection.
keyRight(e, shiftPressed) ==
    With(Len(LineAt(e.lines, e.cy)), LAMBDA lineLen :
    With(IF e.cx < lineLen
              THEN [moveSelection(e, shiftPressed, startSelection) EXCEPT !.cx = e.cx + 1]
              ELSE IF e.cy < Len(e.lines) - 1
              THEN ensureVisible(
                     [moveSelection(e, shiftPressed, startSelection)
                        EXCEPT !.cy = e.cy + 1, !.cx = 0])
              ELSE IF e.selecting THEN endSelection(e) ELSE e, LAMBDA e1 :
       Handled(e1, ensureVisible(e1), 0, "move")))

\* Home and End.
keyHome(e, shiftPressed) ==
    With([moveSelection(e, shiftPressed, startSelection) EXCEPT !.cx = 0], LAMBDA e1 :
       Handled(e1, ensureVisible(e1), 0, "move"))

keyEnd(e, shiftPressed) ==
    With([moveSelection(e, shiftPressed, startSelection)
                 EXCEPT !.cx = Len(LineAt(e.lines, e.cy))], LAMBDA e1 :
       Handled(e1, ensureVisible(e1), 0, "move"))

\* PgUp and PgDn move the scroll offset by height - 1 and put the cursor on
\* the line with that index.
keyPgUp(e, shiftPressed) ==
    With(moveSelection(e, shiftPressed, startSelection), LAMBDA e0 :
    With(Max(e0.offsetY - (e0.height - 1), 0), LAMBDA off :
    With([e0 EXCEPT !.offsetY = off, !.cy = Min(off, Len(e0.lines) - 1)], LAMBDA e1 :
       Handled(ensureVisible(e1), ensureVisible(e1), 0, "move"))))

keyPgDn(e, shiftPressed) ==
    With(moveSelection(e, shiftPressed, startSelection), LAMBDA e0 :
    With(Min(e0.offsetY + (e0.height - 1), Len(e0.lines) - 1), LAMBDA off :
    With([e0 EXCEPT !.offsetY = off, !.cy = off], LAMBDA e1 :
       Handled(ensureVisible(e1), ensureVisible(e1), 0, "move"))))

\* Ctrl+A: a character selection from the start of the document to its end.
keyCtrlA(e) ==
    With(IF ~e.selecting
              THEN With(Max(Len(e.lines) - 1, 0), LAMBDA y :
                      ensureVisible(
                        [e EXCEPT !.selecting = TRUE,
                                  !.selectStartX = 0,
                                  !.selectStartY = 0,
                                  !.cy = y,
                                  !.cx = IF Len(e.lines) > 0 THEN Len(LineAt(e.lines, y)) ELSE 0]))
              ELSE e, LAMBDA e1 :
       Handled(e1, ensureVisible(e1), 0, "move"))

\* Escape.
keyEscape(e) ==
    With([endSelection(e) EXCEPT !.prompt = NoPrompt], LAMBDA e1 :
       Handled(e1, ensureVisible(e1), 0, "other"))

\* Ctrl+B and Ctrl+N.
keyCtrlB(e) ==
    With(endSelection(switchToNextCanvas(e)), LAMBDA e1 :    Handled(e1, e1, 0, "canvas"))

keyCtrlN(e) ==
    With(endSelection(createNewCanvas(e)), LAMBDA e1 :    Handled(e1, ensureVisible(e1), 0, "canvas"))

-----------------------------------------------------------------------------
(* The file system the editor runs against.  A path is a sequence of
   components: the project directory holds one supported file, which gets
   a canvas at start-up, and one file that gets none; the working
   directory holds two more files. *)

NoFile == << >>

ProjectDir == << "dir" >>

ProjectFiles == {"a.py"}

FileContent ==
    (<< "dir", "a.py" >> :> << "p" >>)
    @@ (<< "dir", "b.txt" >> :> << "q", NL, "r" >>)
    @@ (<< "c.txt" >> :> << "a", "b" >>)
    @@ (<< "m.py" >> :> << "a", NL, "b" >>)

\* info.IsDir() of a successful os.Stat.
IsDir(path) == path = ProjectDir

\* os.Stat succeeds.
Exists(path) == IsDir(path) \/ path \in DOMAIN FileContent

\* filepath.Join of a directory and a relative name.
JoinPath(dir, name) == dir \o << name >>

\* detectLanguage: the language of the path's extension.
detectLanguage(path) ==
    IF path # << >> /\ path[Len(path)] \in {"a.py", "m.py"} THEN LangPython ELSE LangUnknown

\* openFile on the file system fs: the file replaces the content of the
\* live canvas.
openFileFrom(fs, e, name) ==
    IF e.crashed THEN e
    ELSE With(IF e.filename # NoFile /\ IsDir(e.filename)
                     THEN JoinPath(e.filename, name) ELSE << name >>, LAMBDA path :
            IF path \notin DOMAIN fs THEN showError(e, "open")
            ELSE syncEditorToCanvas(ensureVisible(
                   [e EXCEPT !.filename = path,
                             !.lines = Split(ReplaceCRLF(fs[path])),
                             !.language = detectLanguage(path),
                             !.cx = 0, !.cy = 0, !.offsetY = 0,
                             !.dirty = FALSE,
                             !.undoStack = << >>,
                             !.redoStack = << >>])))

openFile(e, name) == openFileFrom(FileContent, e, name)

\* openOrCreateCanvasForFile on the file system fs: a canvas that already
\* holds the file becomes the active one; otherwise the file is read into a
\* new canvas.
openOrCreateCanvasForFileFrom(fs, e, fullPath) ==
    IF e.crashed THEN e
    ELSE With({n \in DOMAIN e.canvases : e.canvases[n].filename = fullPath}, LAMBDA holders :
            IF holders # {}
            THEN syncCanvasToEditor([e EXCEPT !.currentCanvas = CHOOSE n \in holders : TRUE])
            ELSE IF Cardinality(DOMAIN e.canvases) >= MaxCanvases
            THEN showError(e, "capacity")
            ELSE With(syncEditorToCanvas(e), LAMBDA e1 :
                 With(freeCanvasId(DOMAIN e1.canvases), LAMBDA newCanvasNum :
                    IF fullPath \notin DOMAIN fs THEN showError(e1, "open")
                    ELSE With(Canvas(fullPath,
                                              Split(ReplaceCRLF(fs[fullPath])),
                                              0, 0, 0, FALSE, detectLanguage(fullPath),
                                              << >>, << >>), LAMBDA canvas :
                            ensureVisible(syncCanvasToEditor(
                              [e1 EXCEPT !.canvases = putCanvas(@, newCanvasNum, canvas),
                                         !.currentCanvas = newCanvasNum]))))))

openOrCreateCanvasForFile(e, fullPath) ==
    openOrCreateCanvasForFileFrom(FileContent, e, fullPath)

\* openProjectFile.
openProjectFile(e, name) ==
    IF e.filename # NoFile /\ IsDir(e.filename) /\ Exists(JoinPath(e.filename, name))
    THEN openOrCreateCanvasForFile(e, JoinPath(e.filename, name))
    ELSE openFile(e, name)

-----------------------------------------------------------------------------
(* undo.go: findAndJump. *)

\* Whether q occurs in runes at the 0-based index j.
matchAt(runes, q, j) ==
    /\ j + Len(q) <= Len(runes)
    /\ \A k \in 1 .. Len(q) : runes[j + k] = q[k]

\* The search order of findAndJump: << i, index >> of the first match, the
\* line (startY + i) % totalLines being searched from startX + 1 when i = 0
\* and from 0 otherwise; << -1, -1 >> without a match.
findNext(ls, q, startY, startX) ==
    With(Len(ls), LAMBDA totalLines :
    LET from(i) == IF i = 0 THEN Min(startX + 1, Len(LineAt(ls, startY))) ELSE 0 IN
    With({h \in (0 .. (totalLines - 1)) \X (0 .. Max(0, Len(Concat(ls)))) :
                   /\ h[2] >= from(h[1])
                   /\ matchAt(LineAt(ls, (startY + h[1]) % totalLines), q, h[2])}, LAMBDA hits :
       IF hits = {} THEN << -1, -1 >>
       ELSE CHOOSE h \in hits :
              \A g \in hits : h[1] < g[1] \/ (h[1] = g[1] /\ h[2] <= g[2])))

\* strings.TrimSpace: t without its leading and trailing white space.
TrimSpace(t) ==
    With({i \in DOMAIN t : ~IsSpace(t[i])}, LAMBDA solid :
       IF solid = {} THEN << >>
       ELSE SubSeq(t, CHOOSE i \in solid : \A j \in solid : i <= j,
                      CHOOSE i \in solid : \A j \in solid : i >= j))

\* findAndJump: the query is trimmed; an empty one is given up at once.
findAndJump(e, query) ==
    With(TrimSpace(query), LAMBDA q :
       IF e.crashed \/ q = << >> THEN e
       ELSE With(findNext(e.lines, q, e.cy, e.cx), LAMBDA h :
               IF h[1] < 0 THEN e
               ELSE [ensureVisible([e EXCEPT !.cy = (e.cy + h[1]) % Len(e.lines), !.cx = h[2]])
                       EXCEPT !.lastSearch = q]))

\* The value of a decimal digit, -1 for any other rune.
DigitValue(r) ==
    CASE r = "0" -> 0 [] r = "1" -> 1 [] r = "2" -> 2 [] r = "3" -> 3 [] OTHER -> -1

RECURSIVE atoiDigits(_, _, _)
atoiDigits(t, i, acc) ==
    IF i > Len(t) THEN acc
    ELSE IF DigitValue(t[i]) < 0 THEN -1
    ELSE atoiDigits(t, i + 1, acc * 10 + DigitValue(t[i]))

\* strconv.Atoi on the short inputs of the model: an optional sign and at
\* least one digit, anything else is an error.
Atoi(t) ==
    With(IF t # << >> /\ t[1] \in {"+", "-"} THEN Drop(t, 1) ELSE t, LAMBDA digits :
    With(IF digits = << >> THEN -1 ELSE atoiDigits(digits, 1, 0), LAMBDA magnitude :
       IF magnitude < 0 THEN [err |-> TRUE, n |-> 0]
       ELSE [err |-> FALSE,
             n |-> IF t[1] = "-" THEN 0 - magnitude ELSE magnitude]))

-----------------------------------------------------------------------------
(* display.go: the keys that open a prompt, and handlePromptInput /
   handleTerminalInput.  The text typed into a prompt is not part of the
   state: it is an argument of the Enter key that submits it. *)

\* strings.TrimSpace(t) != "".
NotBlank(t) == \E i \in 1 .. Len(t) : ~IsSpace(t[i])

\* Ctrl+W: the callback captures whether a non-blank selection exists.
keyCtrlW(e) ==
    With([e EXCEPT !.prompt = Prompt("translate", NotBlank(getSelectedText(e)))], LAMBDA e1 :
       Handled(e1, ensureVisible(e1), 0, "other"))

\* Ctrl+F, Ctrl+G, Ctrl+T.
keyCtrlF(e) ==
    With([e EXCEPT !.prompt = Prompt("search", FALSE)], LAMBDA e1 :
       Handled(e1, ensureVisible(e1), 0, "other"))

keyCtrlG(e) ==
    With([e EXCEPT !.prompt = Prompt("goto", FALSE)], LAMBDA e1 :
       Handled(e1, ensureVisible(e1), 0, "other"))

keyCtrlT(e) ==
    With([e EXCEPT !.prompt = Prompt("terminal", FALSE)], LAMBDA e1 :
       Handled(e1, ensureVisible(e1), 0, "other"))

\* Ctrl+O also ends the selection.
keyCtrlO(e) ==
    With(endSelection([e EXCEPT !.prompt = Prompt("open", FALSE)]), LAMBDA e1 :
       Handled(e1, ensureVisible(e1), 0, "other"))

\* Escape in a prompt.
promptEscape(e) ==
    With([e EXCEPT !.prompt = NoPrompt], LAMBDA e1 :    Handled(e1, e1, 0, "other"))

\* Enter in the translate prompt, the LLM answering translation.
promptTranslate(e, translation) ==
    With([e EXCEPT !.prompt = NoPrompt], LAMBDA e0 :
    With(IF e.prompt.hasSelection THEN deleteSelection(e0) ELSE e0, LAMBDA e1 :
    With(insertTextAtCursor(e1, translation), LAMBDA e2 :
       Handled(e1, e2, IF e.prompt.hasSelection THEN 2 ELSE 1, "edit"))))

\* Enter in the translate prompt, the LLM failing or answering nothing.
promptTranslateNothing(e, llmFailed) ==
    With([e EXCEPT !.prompt = NoPrompt], LAMBDA e0 :
    With(IF llmFailed THEN showError(e0, "llm") ELSE e0, LAMBDA e1 :
       Handled(e1, e1, 0, "other")))

\* Enter in the search prompt with "old -> new".
promptReplace(e, old, new) ==
    With(replaceAllOccurrences([e EXCEPT !.prompt = NoPrompt], old, new), LAMBDA e1 :
       Handled(e1, e1, 1, "edit"))

\* Enter in the search prompt with a query.
promptSearch(e, q) ==
    With([e EXCEPT !.prompt = NoPrompt], LAMBDA e0 :
    With(IF TrimSpace(q) = << >> THEN [e0 EXCEPT !.lastSearch = q]
              ELSE [findAndJump(e0, q) EXCEPT !.lastSearch = q], LAMBDA e1 :
       Handled(e1, e1, 0, "move")))

\* Enter in the go-to-line prompt with the number n (n <= 0 stands for
\* every input that is rejected).
\* The Go to line callback taking every input for a line number: what is
\* not a positive number counts as line 1.
promptGotoLenient(e, input) ==
    With([e EXCEPT !.prompt = NoPrompt], LAMBDA e0 :
    With(Atoi(TrimSpace(input)), LAMBDA r :
    With(IF r.err \/ r.n <= 0 THEN 1 ELSE r.n, LAMBDA n :
    With(endSelection(ensureVisible(
           [e0 EXCEPT !.cy = Min(n - 1, Len(e0.lines) - 1), !.cx = 0])), LAMBDA e1 :
       Handled(e1, e1, 0, "move")))))

promptGoto(e, input) ==
    With([e EXCEPT !.prompt = NoPrompt], LAMBDA e0 :
    With(Atoi(TrimSpace(input)), LAMBDA r :
    With(IF r.err \/ r.n <= 0 THEN e0
              ELSE endSelection(ensureVisible(
                     [e0 EXCEPT !.cy = Min(r.n - 1, Len(e0.lines) - 1), !.cx = 0])), LAMBDA e1 :
       Handled(e1, e1, 0, "move"))))

\* Enter in the open-file prompt with the name typed.
promptOpen(e, name) ==
    With([e EXCEPT !.prompt = NoPrompt], LAMBDA e0 :
    With(IF e0.filename # NoFile /\ IsDir(e0.filename)
              THEN openProjectFile(e0, name) ELSE openFile(e0, name), LAMBDA e1 :
       Handled(e1, e1, 0, "canvas")))

\* persist: writeOk is whether os.WriteFile succeeds.
persist(e, writeOk) == IF writeOk THEN [e EXCEPT !.dirty = FALSE] ELSE showError(e, "save")

\* Ctrl+S, save: without a file name it asks for one, with one it persists
\* and, when that succeeded, syncs the canvas.
keyCtrlS(e, writeOk) ==
    IF e.filename = NoFile
    THEN With([e EXCEPT !.prompt = Prompt("saveas", FALSE)], LAMBDA e1 :
            Handled(e1, ensureVisible(e1), 0, "other"))
    ELSE With(IF writeOk THEN syncEditorToCanvas(persist(e, TRUE)) ELSE persist(e, FALSE),
              LAMBDA e1 :
            Handled(e1, ensureVisible(e1), 0, IF writeOk THEN "save" ELSE "other"))

\* Enter in the save-as prompt with the path typed: a blank path is
\* ignored; the result of persist is dropped, the canvas is synced anyway.
promptSaveAs(e, path, writeOk) ==
    With([e EXCEPT !.prompt = NoPrompt], LAMBDA e0 :
       IF path = NoFile THEN Handled(e0, e0, 0, "other")
       ELSE With(syncEditorToCanvas(persist([e0 EXCEPT !.filename = path], writeOk)),
                 LAMBDA e1 : Handled(e1, e1, 0, IF writeOk THEN "save" ELSE "other")))

\* Enter in the terminal prompt, the command printing result (not empty);
\* the prompt stays open.
promptTerminal(e, result) ==
    With(insertLLMResponse(e, result), LAMBDA e1 :    Handled(e1, e1, 0, "change"))

-----------------------------------------------------------------------------
(* part_000: the constructors, and Run up to its first poll. *)

\* The fields NewEditor and NewEditorWithProject set alike.
blankEditor ==
    [lines |-> << << >> >>, cx |-> 0, cy |-> 0, offsetY |-> 0, dirty |-> FALSE,
     language |-> LangUnknown, filename |-> NoFile,
     selecting |-> FALSE, lineSelecting |-> FALSE, selectStartX |-> 0, selectStartY |-> 0,
     undoStack |-> << >>, redoStack |-> << >>,
     contentWidth |-> 115, contentHeight |-> 35, height |-> 35,
     prompt |-> NoPrompt, lastSearch |-> << >>,
     canvases |-> << >>, currentCanvas |-> 1,
     errorMessage |-> "", timers |-> 0,
     quit |-> FALSE,
     crashed |-> FALSE]

\* NewEditor(path): one canvas, holding the file when it can be read.
NewEditorFrom(fs, path) ==
    With(path \in DOMAIN fs, LAMBDA ok :
    With(IF ok THEN Split(ReplaceCRLF(fs[path])) ELSE << << >> >>, LAMBDA ls :
    With(IF ok THEN detectLanguage(path) ELSE LangUnknown, LAMBDA lang :
       [blankEditor EXCEPT
          !.filename = path, !.lines = ls, !.language = lang,
          !.canvases = (1 :> Canvas(path, ls, 0, 0, 0, FALSE, lang, << >>, << >>))])))

\* The lines of the overview canvas (createProjectOverview): a text that
\* lists the project's files.
OverviewLines == << << "o", "v" >>, << "a" >> >>

\* createCanvasesForProjectFiles: files is the map of readProjectFiles as the
\* sequence of << relative path, content >> in the order the range statement
\* yields it; file i gets canvas i + 1 while that is at most MaxCanvases.
createCanvasesForProjectFiles(e, files, basePath) ==
    With(Min(Len(files), MaxCanvases - 1), LAMBDA n :
       [e EXCEPT !.canvases =
          [canvasNum \in DOMAIN @ \cup (2 .. (n + 1)) |->
             IF canvasNum \in 2 .. (n + 1)
             THEN With(JoinPath(basePath, files[canvasNum - 1][1]), LAMBDA fullPath :
                     Canvas(fullPath, Split(files[canvasNum - 1][2]), 0, 0, 0, FALSE,
                            detectLanguage(fullPath), << >>, << >>))
             ELSE @[canvasNum]]])

NewEditor(path) == NewEditorFrom(FileContent, path)

\* NewEditorWithProject(dirPath), readProjectFiles having returned
\* projectFiles: canvas 1 is the overview, the project's files get the
\* canvases from 2 on.
NewEditorWithProject(dirPath, projectFiles) ==
    createCanvasesForProjectFiles(
       [blankEditor EXCEPT
          !.filename = dirPath, !.lines = OverviewLines,
          !.canvases =
              (1 :> Canvas(dirPath, OverviewLines, 0, 0, 0, FALSE, LangUnknown, << >>, << >>))],
       projectFiles, dirPath)

\* readProjectFiles(ProjectDir): the supported files of the directory.
readProjectFiles ==
    << << CHOOSE f \in ProjectFiles : TRUE,
          FileContent[JoinPath(ProjectDir, CHOOSE f \in ProjectFiles : TRUE)] >> >>

\* refreshSize on a terminal of w by h cells.
refreshSize(e, w, h) ==
    With(IF w <= 0 THEN 1 ELSE IF w > 115 THEN 115 ELSE w, LAMBDA w1 :
    With(IF h <= 0 THEN 1 ELSE h, LAMBDA h1 :
       cursorDisplayPosition(
         [e EXCEPT !.contentWidth = w1, !.contentHeight = h1, !.height = h1]).e))

\* render: what it changes in the editor is the clamping of the cursor.
render(e) == IF e.crashed THEN e ELSE cursorDisplayPosition(e).e

-----------------------------------------------------------------------------
(* The state variables as an editor record, and back. *)

Ed ==
    [lines |-> lines, cx |-> cx, cy |-> cy, offsetY |-> offsetY, dirty |-> dirty,
     language |-> language, filename |-> filename,
     selecting |-> selecting, lineSelecting |-> lineSelecting,
     selectStartX |-> selectStartX, selectStartY |-> selectStartY,
     undoStack |-> undoStack, redoStack |-> redoStack,
     contentWidth |-> contentWidth, contentHeight |-> contentHeight, height |-> height,
     prompt |-> prompt, lastSearch |-> lastSearch,
     canvases |-> canvases, currentCanvas |-> currentCanvas,
     errorMessage |-> errorMessage, timers |-> timers,
     quit |-> quit,
     crashed |-> crashed]

Commit(e) ==
    /\ lines' = e.lines /\ cx' = e.cx /\ cy' = e.cy /\ offsetY' = e.offsetY
    /\ dirty' = e.dirty /\ language' = e.language /\ filename' = e.filename
    /\ selecting' = e.selecting /\ lineSelecting' = e.lineSelecting
    /\ selectStartX' = e.selectStartX /\ selectStartY' = e.selectStartY
    /\ undoStack' = e.undoStack /\ redoStack' = e.redoStack
    /\ contentWidth' = e.contentWidth /\ contentHeight' = e.contentHeight
    /\ height' = e.height
    /\ prompt' = e.prompt /\ lastSearch' = e.lastSearch
    /\ canvases' = e.canvases /\ currentCanvas' = e.currentCanvas
    /\ errorMessage' = e.errorMessage /\ timers' = e.timers
    /\ quit' = e.quit
    /\ crashed' = e.crashed

-----------------------------------------------------------------------------
(* What the collaborators may answer and the user may type. *)

TypedRunes == {"a", "("}

ClipboardTexts == {<< "x" >>, << "y", NL, "z" >>}

RunTexts == {<< NL, "r" >>}

TerminalResults == {<< "o" >>}

Translations == {<< "t" >>}

Replacements == {<< << "a" >>, << "c", "c" >> >>}

SearchQueries == {<< >>, << " " >>, << "b" >>}

\* What is typed into the Go to line prompt.
GotoInputs == {<< >>, << "x" >>, << "0" >>, << "-", "2" >>, << "2", "x" >>,
               << "2" >>, << " ", "2" >>, << "1", "0" >>}

\* The input is a positive number.
PositiveNumber(input) == ~Atoi(TrimSpace(input)).err /\ Atoi(TrimSpace(input)).n > 0

OpenNames == {"a.py", "b.txt", "c.txt", "zz"}

SavePaths == {NoFile, << "s.txt" >>}

-----------------------------------------------------------------------------
(* The history variables. *)

NoKey == [name |-> "none", kind |-> "none", ops |-> 0]

NoRun == [phase |-> "none", base |-> EditorState(<< >>, 0, 0),
          edits |-> 0, pushed |-> 0, undos |-> 0]

NoUndone == [phase |-> "none", ed |-> << >>]

NoSaved == << "unknown" >>

NoFlight == [name |-> "none"]

NoProbe == [fn |-> "none"]

\* The part of the live context a canvas keeps.
Context(e) ==
    [lines |-> e.lines, cx |-> e.cx, cy |-> e.cy, dirty |-> e.dirty,
     undoStack |-> e.undoStack, redoStack |-> e.redoStack]

\* The run after a key: edit keys start or extend a run, undo keys follow
\* its edits, every other key ends it.
NextRun(h) ==
    With(Len(h.e.undoStack) - Len(undoStack), LAMBDA pushed :
       IF h.kind = "edit"
       THEN IF run.phase = "edit"
            THEN [run EXCEPT !.edits = @ + h.ops, !.pushed = @ + pushed]
            ELSE [phase |-> "edit", base |-> EditorState(lines, cx, cy),
                  edits |-> h.ops, pushed |-> pushed, undos |-> 0]
       ELSE IF h.kind = "undo" /\ run.phase \in {"edit", "undo"}
       THEN [run EXCEPT !.phase = "undo", !.undos = @ + 1]
       ELSE NoRun)

\* The lines last loaded or saved: a successful save makes them the lines
\* it wrote; they are not followed across a change of canvas or of file.
NextSaved(h) ==
    IF h.kind = "save" THEN h.e.lines
    ELSE IF h.kind = "canvas" THEN NoSaved
    ELSE saved

\* An undo that finds a snapshot remembers the editor it undoes; the redo
\* that follows it at once keeps that memory, every other key drops it.
NextUndone(h) ==
    IF h.kind = "undo" /\ undoStack # << >>
    THEN [phase |-> "undone", ed |-> Context(Ed)]
    ELSE IF h.kind = "redo" /\ undone.phase = "undone"
    THEN [undone EXCEPT !.phase = "redone"]
    ELSE NoUndone

\* The run of Ctrl+B keys after a key: Ctrl+B extends it, every other key
\* starts a new one on the canvas it leaves active.
NextSwitches(name, h) ==
    IF name = "CtrlB" THEN [switches EXCEPT !.n = @ + 1]
    ELSE [from |-> h.e.currentCanvas, n |-> 0]

\* One iteration of the loop of Run: the key is handled (h is what its
\* handler returned for the live editor), then the screen is rendered.
Complete(name, h, from) ==
    /\ h.e.timers <= MaxTimers
    /\ Commit(render(h.e))
    /\ nkeys' = nkeys + 1
    /\ lastKey' = [name |-> name, kind |-> h.kind, ops |-> h.ops]
    /\ prevEd' = from
    /\ opEd' = h.op
    /\ run' = NextRun(h)
    /\ undone' = NextUndone(h)
    /\ saved' = NextSaved(h)
    /\ leftAs' = IF h.e.currentCanvas # currentCanvas
                 THEN [n \in DOMAIN leftAs \cup {currentCanvas} |->
                         IF n = currentCanvas THEN Context(Ed) ELSE leftAs[n]]
                 ELSE leftAs
    /\ switches' = NextSwitches(name, h)
    /\ UNCHANGED << budget, probe >>

\* A key event dispatched with no other goroutine running in between.
Dispatch(name, h) ==
    /\ nkeys < budget
    /\ ~crashed
    /\ ~quit
    /\ inflight = NoFlight
    /\ Complete(name, h, Ed)
    /\ UNCHANGED inflight

NoPromptOpen == prompt.kind = "none"

-----------------------------------------------------------------------------
(* The key events. *)

KeyRune == NoPromptOpen /\ \E r \in TypedRunes : Dispatch("Rune", keyRune(Ed, r))

KeyEnter == NoPromptOpen /\ Dispatch("Enter", keyEnter(Ed))

KeyBackspace == NoPromptOpen /\ Dispatch("Backspace", keyBackspace(Ed))

KeyDelete == NoPromptOpen /\ Dispatch("Delete", keyDelete(Ed))

KeyCtrlX == NoPromptOpen /\ \E clipOk \in BOOLEAN : Dispatch("CtrlX", keyCtrlX(Ed, clipOk))

KeyCtrlV ==
    /\ NoPromptOpen
    /\ \/ \E text \in ClipboardTexts : Dispatch("CtrlV", keyCtrlV(Ed, text))
       \/ Dispatch("CtrlV", keyCtrlVError(Ed))

KeyCtrlZ == NoPromptOpen /\ Dispatch("CtrlZ", keyCtrlZ(Ed))

KeyCtrlE == NoPromptOpen /\ Dispatch("CtrlE", keyCtrlE(Ed))

KeyCtrlK == NoPromptOpen /\ Dispatch("CtrlK", keyCtrlK(Ed))

KeyCtrlU == NoPromptOpen /\ Dispatch("CtrlU", keyCtrlU(Ed))

KeyCtrlY == NoPromptOpen /\ Dispatch("CtrlY", keyCtrlY(Ed))

KeyCtrlR ==
    /\ NoPromptOpen
    /\ \E runFailed \in BOOLEAN :
          \/ \E text \in RunTexts : Dispatch("CtrlR", keyCtrlR(Ed, text, runFailed))
          \/ Dispatch("CtrlR", keyCtrlRError(Ed, runFailed))

KeyUp ==
    /\ NoPromptOpen
    /\ \E shift \in BOOLEAN : Dispatch(IF shift THEN "ShiftUp" ELSE "Up", keyUp(Ed))

KeyDown ==
    /\ NoPromptOpen
    /\ \E shift \in BOOLEAN : Dispatch(IF shift THEN "ShiftDown" ELSE "Down", keyDown(Ed))

KeyLeft ==
    /\ NoPromptOpen
    /\ \E shift \in BOOLEAN :
          Dispatch(IF shift THEN "ShiftLeft" ELSE "Left", keyLeft(Ed, shift))

KeyRight ==
    /\ NoPromptOpen
    /\ \E shift \in BOOLEAN :
          Dispatch(IF shift THEN "ShiftRight" ELSE "Right", keyRight(Ed, shift))

KeyHome ==
    /\ NoPromptOpen
    /\ \E shift \in BOOLEAN :
          Dispatch(IF shift THEN "ShiftHome" ELSE "Home", keyHome(Ed, shift))

KeyEnd ==
    /\ NoPromptOpen
    /\ \E shift \in BOOLEAN :
          Dispatch(IF shift THEN "ShiftEnd" ELSE "End", keyEnd(Ed, shift))

KeyPgUp ==
    /\ NoPromptOpen
    /\ \E shift \in BOOLEAN :
          Dispatch(IF shift THEN "ShiftPgUp" ELSE "PgUp", keyPgUp(Ed, shift))

KeyPgDn ==
    /\ NoPromptOpen
    /\ \E shift \in BOOLEAN :
          Dispatch(IF shift THEN "ShiftPgDn" ELSE "PgDn", keyPgDn(Ed, shift))

KeyCtrlA == NoPromptOpen /\ Dispatch("CtrlA", keyCtrlA(Ed))

KeyEscape == NoPromptOpen /\ Dispatch("Escape", keyEscape(Ed))

KeyCtrlB == NoPromptOpen /\ Dispatch("CtrlB", keyCtrlB(Ed))

KeyCtrlN == NoPromptOpen /\ Dispatch("CtrlN", keyCtrlN(Ed))

KeyCtrlW == NoPromptOpen /\ Dispatch("CtrlW", keyCtrlW(Ed))

KeyCtrlF == NoPromptOpen /\ Dispatch("CtrlF", keyCtrlF(Ed))

KeyCtrlG == NoPromptOpen /\ Dispatch("CtrlG", keyCtrlG(Ed))

KeyCtrlT == NoPromptOpen /\ Dispatch("CtrlT", keyCtrlT(Ed))

KeyCtrlO == NoPromptOpen /\ Dispatch("CtrlO", keyCtrlO(Ed))

PromptEscape == prompt.kind # "none" /\ Dispatch("Escape", promptEscape(Ed))

PromptTranslate ==
    /\ prompt.kind = "translate"
    /\ \/ \E t \in Translations : Dispatch("Enter", promptTranslate(Ed, t))
       \/ \E llmFailed \in BOOLEAN : Dispatch("Enter", promptTranslateNothing(Ed, llmFailed))

PromptReplace ==
    /\ prompt.kind = "search"
    /\ \E p \in Replacements : Dispatch("Enter", promptReplace(Ed, p[1], p[2]))

PromptSearch ==
    /\ prompt.kind = "search"
    /\ \E q \in SearchQueries :
          Dispatch(IF TrimSpace(q) = << >> THEN "SearchEmpty" ELSE "Search", promptSearch(Ed, q))

PromptGoto ==
    /\ prompt.kind = "goto"
    /\ \E input \in GotoInputs :
          Dispatch(IF PositiveNumber(input) THEN "Goto" ELSE "GotoInvalid",
                   promptGoto(Ed, input))

PromptOpen ==
    /\ prompt.kind = "open"
    /\ \E name \in OpenNames : Dispatch("Open:" \o name, promptOpen(Ed, name))

KeyCtrlS == NoPromptOpen /\ \E writeOk \in BOOLEAN : Dispatch("CtrlS", keyCtrlS(Ed, writeOk))

PromptSaveAs ==
    /\ prompt.kind = "saveas"
    /\ \E path \in SavePaths, writeOk \in BOOLEAN :
          Dispatch("Enter", promptSaveAs(Ed, path, writeOk))

PromptTerminal ==
    /\ prompt.kind = "terminal"
    /\ \E result \in TerminalResults : Dispatch("Enter", promptTerminal(Ed, result))

-----------------------------------------------------------------------------
(* The editor from its construction on: every key of the dispatcher. *)

\* The paths the editor may be started with.
StartPaths == {NoFile, << "c.txt" >>, << "m.py" >>}

\* The state variables hold the editor e, which may dispatch b key events.
Load(e, b) ==
    /\ lines = e.lines /\ cx = e.cx /\ cy = e.cy /\ offsetY = e.offsetY
    /\ dirty = e.dirty /\ language = e.language /\ filename = e.filename
    /\ selecting = e.selecting /\ lineSelecting = e.lineSelecting
    /\ selectStartX = e.selectStartX /\ selectStartY = e.selectStartY
    /\ undoStack = e.undoStack /\ redoStack = e.redoStack
    /\ contentWidth = e.contentWidth /\ contentHeight = e.contentHeight
    /\ height = e.height
    /\ prompt = e.prompt /\ lastSearch = e.lastSearch
    /\ canvases = e.canvases /\ currentCanvas = e.currentCanvas
    /\ errorMessage = e.errorMessage /\ timers = e.timers
    /\ quit = e.quit
    /\ crashed = e.crashed
    /\ inflight = NoFlight
    /\ budget = b
    /\ nkeys = 0
    /\ lastKey = NoKey
    /\ prevEd = e
    /\ opEd = e
    /\ run = NoRun
    /\ undone = NoUndone
    /\ saved = e.lines
    /\ leftAs = << >>
    /\ switches = [from |-> e.currentCanvas, n |-> 0]
    /\ probe = NoProbe

Init == \E path \in StartPaths : Load(refreshSize(NewEditor(path), ScreenW, ScreenH), MaxKeys)

Next ==
    \/ KeyRune \/ KeyEnter \/ KeyBackspace \/ KeyDelete \/ KeyCtrlX \/ KeyCtrlV
    \/ KeyCtrlZ \/ KeyCtrlE \/ KeyCtrlK \/ KeyCtrlU \/ KeyCtrlY \/ KeyCtrlR
    \/ KeyUp \/ KeyDown \/ KeyLeft \/ KeyRight \/ KeyHome \/ KeyEnd
    \/ KeyPgUp \/ KeyPgDn \/ KeyCtrlA \/ KeyEscape \/ KeyCtrlB \/ KeyCtrlN
    \/ KeyCtrlW \/ KeyCtrlF \/ KeyCtrlG \/ KeyCtrlT \/ KeyCtrlO
    \/ PromptEscape \/ PromptTranslate \/ PromptReplace \/ PromptSearch
    \/ PromptGoto \/ PromptOpen \/ PromptTerminal

Spec == Init /\ [][Next]_vars

-----------------------------------------------------------------------------
(* Properties of the key dispatcher. *)

\* The document has a line and the cursor is on a line and in it.
ValidDoc(e) ==
    /\ Len(e.lines) >= 1
    /\ 0 <= e.cy /\ e.cy < Len(e.lines)
    /\ 0 <= e.cx /\ e.cx <= Len(LineAt(e.lines, e.cy))

\* The last key was one of those whose handlers edit the document (undo,
\* redo and the canvas and file keys replace it instead).
LastKeyEdits == lastKey.kind \in {"edit", "change"}

\* C1: after every editing operation and after every dispatched key event
\* the document has at least one line and the cursor is on a line of the
\* document, at a column between 0 and the length of that line.
C1_DocumentAndCursorValid ==
    ~crashed => ValidDoc(opEd) /\ ValidDoc(Ed)

\* C2: no sequence of key events terminates the editor abnormally.
C2_NoAbnormalTermination == ~crashed

\* C5: with redo entries pending after an undo, a key whose handler changes
\* the lines of the document leaves the redo stack empty.
C5_EditAfterUndoEmptiesRedo ==
    (LastKeyEdits /\ ~crashed /\ prevEd.redoStack # << >> /\ lines # prevEd.lines)
        => redoStack = << >>

\* C6: a key whose handler changes the lines of the document has pushed,
\* on top of the undo stack it found, a snapshot of the lines and the
\* cursor as they were when the key arrived.
C6_SnapshotBeforeChange ==
    (LastKeyEdits /\ lines # prevEd.lines)
        => /\ Len(undoStack) > Len(prevEd.undoStack)
           /\ undoStack[Len(prevEd.undoStack) + 1]
                  = EditorState(prevEd.lines, prevEd.cx, prevEd.cy)

-----------------------------------------------------------------------------
(* The editor under the keys that edit and undo: the edit operations with
   the cursor and selection keys that set them up, and Ctrl+Z. *)

InitUndo ==
    \E path \in StartPaths : Load(refreshSize(NewEditor(path), ScreenW, ScreenH), MaxUndoKeys)

NextUndo ==
    \/ KeyRune \/ KeyEnter \/ KeyBackspace \/ KeyDelete \/ KeyCtrlX \/ KeyCtrlV
    \/ KeyLeft \/ KeyRight
    \/ KeyCtrlF \/ PromptReplace \/ KeyCtrlW \/ PromptTranslate \/ PromptEscape
    \/ KeyCtrlZ

SpecUndo == InitUndo /\ [][NextUndo]_vars

\* The lines and the cursor are those the buffer had before the first edit
\* of the run.
RunRestored == lines = run.base.Lines /\ cx = run.base.Cx /\ cy = run.base.Cy

\* C3 as stated: after n edit operations and n undos the lines and the
\* cursor are those the buffer had before the first edit.
C3_UndoPerEditRestores ==
    (run.phase = "undo" /\ run.undos = run.edits) => RunRestored

\* C3: after a sequence of edit operations, as many undos as the edits
\* pushed snapshots (an edit that changes nothing, such as backspace at the
\* start of the document, pushes none) restore the lines and the cursor the
\* buffer had before the first edit.
C3_UndoPerSnapshotRestores ==
    (run.phase = "undo" /\ run.undos = run.pushed) => RunRestored

\* Two edits were undone by two undos.
C3_TwoEditsUndone ==
    run.phase = "undo" /\ run.undos = 2 /\ run.pushed = 2 /\ run.edits = 2

-----------------------------------------------------------------------------
(* The editor under undo and redo: typing, the line selection, the
   translation of the selection, Ctrl+Z and Ctrl+E. *)

InitRedo ==
    \E path \in StartPaths : Load(refreshSize(NewEditor(path), ScreenW, ScreenH), MaxRedoKeys)

NextRedo ==
    \/ KeyRune \/ KeyLeft
    \/ KeyCtrlW \/ PromptTranslate
    \/ KeyCtrlZ \/ KeyCtrlE

SpecRedo == InitRedo /\ [][NextRedo]_vars

\* C4: an undo that finds a snapshot, followed at once by a redo, leaves
\* the lines, the cursor and the contents of the undo and redo stacks as
\* they were before the undo.
C4_UndoRedoIdentity ==
    undone.phase = "redone"
        => /\ lines = undone.ed.lines /\ cx = undone.ed.cx /\ cy = undone.ed.cy
           /\ undoStack = undone.ed.undoStack
           /\ redoStack = undone.ed.redoStack

-----------------------------------------------------------------------------
(* The editor started on a project directory, under the keys that change
   the active canvas and the keys that move the cursor. *)

InitCanvas ==
    Load(refreshSize(NewEditorWithProject(ProjectDir, readProjectFiles), ScreenW, ScreenH),
         MaxCanvasKeys)

NextCanvas ==
    \/ KeyDown \/ KeyRight
    \/ KeyCtrlB \/ KeyCtrlN
    \/ KeyCtrlO \/ PromptOpen \/ PromptEscape

SpecCanvas == InitCanvas /\ [][NextCanvas]_vars

\* The last key made active a canvas that had been left before.
CanvasCameBack ==
    /\ ~crashed
    /\ currentCanvas # prevEd.currentCanvas
    /\ currentCanvas \in DOMAIN leftAs

\* C7: a canvas that becomes active again has the lines, the cursor, the
\* dirty flag and the undo and redo stacks it had when it was left, whatever
\* operation changed the active canvas then.
C7_CanvasComesBackAsLeft ==
    CanvasCameBack => Context(Ed) = leftAs[currentCanvas]

-----------------------------------------------------------------------------
(* getSelectedText and deleteSelection applied to an editor with an active
   selection: any document of SelDocs, any cursor and any anchor in it, in
   character or in line mode. *)

\* The sequences over S of length up to n.
SeqsUpTo(S, n) == UNION {[1 .. k -> S] : k \in 0 .. n}

\* The lines of the documents: the prefixes of "abcd" of up to MaxSelLen runes.
SelLines == {Take(<< "a", "b", "c", "d" >>, k) : k \in 0 .. MaxSelLen}

SelDocs == SeqsUpTo(SelLines, MaxSelLines) \ {<< >>}

\* Whether line y, column x is a cursor position of the document ls.
IsPosition(ls, y, x) == y < Len(ls) /\ x <= Len(LineAt(ls, y))

InitSel ==
    \E ls \in SelDocs, y \in 0 .. MaxSelLines - 1, x \in 0 .. MaxSelLen,
       sy \in 0 .. MaxSelLines - 1, sx \in 0 .. MaxSelLen, lineMode \in BOOLEAN :
        /\ IsPosition(ls, y, x)
        /\ IsPosition(ls, sy, sx)
        /\ Load([refreshSize(NewEditor(NoFile), ScreenW, ScreenH) EXCEPT
                    !.lines = ls, !.cx = x, !.cy = y,
                    !.selecting = TRUE, !.lineSelecting = lineMode,
                    !.selectStartX = sx, !.selectStartY = sy], 0)

\* getSelectedText on the live editor; probe keeps the range and the text.
GetSelectedText ==
    /\ probe = NoProbe
    /\ probe' = [fn |-> "getSelectedText", range |-> getSelectionRange(Ed),
                 text |-> getSelectedText(Ed)]
    /\ UNCHANGED << edVars, inflight, budget, nkeys, lastKey, prevEd, opEd, run, saved, undone, leftAs, switches >>

\* deleteSelection on the live editor; probe keeps the range and the text
\* getSelectedText returned for the selection, prevEd the editor before.
DeleteSelection ==
    /\ probe = NoProbe
    /\ Commit(deleteSelection(Ed))
    /\ prevEd' = Ed
    /\ probe' = [fn |-> "deleteSelection", range |-> getSelectionRange(Ed),
                 text |-> getSelectedText(Ed)]
    /\ UNCHANGED << inflight, budget, nkeys, lastKey, opEd, run, saved, undone, leftAs, switches >>

NextSel == GetSelectedText \/ DeleteSelection

SpecSel == InitSel /\ [][NextSel]_vars

\* Whether removing sel from the text before, at some place where it occurs,
\* gives the text after.
RemovedFrom(before, sel, after) ==
    \E k \in 0 .. Len(before) - Len(sel) :
        /\ Slice(before, k, k + Len(sel)) = sel
        /\ Take(before, k) \o Drop(before, k + Len(sel)) = after

\* C8: deleteSelection removes from the document, joined with newlines,
\* exactly the text getSelectedText returns for the selection, leaves one
\* line where the range spanned several, and leaves the selection inactive.
C8_DeleteRemovesSelectedText ==
    probe.fn = "deleteSelection"
        => /\ ~crashed
           /\ RemovedFrom(Join(prevEd.lines), probe.text, Join(lines))
           /\ probe.range[1] < probe.range[3]
                 => Len(lines) = Len(prevEd.lines) - (probe.range[3] - probe.range[1])
           /\ ~selecting /\ ~lineSelecting

\* The text of the normalized range r of the document ls: the first line
\* from startCol, the whole lines between, the last line up to endCol,
\* joined with newlines; within one line the runes between the columns.
RangeText(ls, r) ==
    IF r[1] = r[3] THEN Slice(LineAt(ls, r[1]), r[2], r[4])
    ELSE Join(<< Drop(LineAt(ls, r[1]), r[2]) >>
              \o SubSeq(ls, r[1] + 2, r[3])
              \o << Take(LineAt(ls, r[3]), r[4]) >>)

\* C9: in character mode getSelectedText returns the text of the normalized
\* range, with the newline of an empty first or last piece kept.
C9_SelectedTextIsRangeText ==
    (probe.fn = "getSelectedText" /\ ~lineSelecting)
        => probe.text = RangeText(lines, probe.range)

-----------------------------------------------------------------------------
(* findMatchingBracket applied at the cursor, and again at the closing
   bracket it returns, in any document of BrDocs. *)

BrRunes == {"(", ")", "a"}

BrDocs == SeqsUpTo(SeqsUpTo(BrRunes, MaxBrLen), MaxBrLines) \ {<< >>}

InitBr ==
    \E ls \in BrDocs, y \in 0 .. MaxBrLines - 1, x \in 0 .. MaxBrLen :
        /\ IsPosition(ls, y, x)
        /\ Load([refreshSize(NewEditor(NoFile), ScreenW, ScreenH) EXCEPT
                    !.lines = ls, !.cx = x, !.cy = y], 0)

\* findMatchingBracket at the cursor; when it returns a pair, once more at
\* the position of the other bracket of the pair.
FindMatchingBracket ==
    /\ probe = NoProbe
    /\ probe' = With(findMatchingBracket(lines, cy, cx), LAMBDA pair :
                   [fn |-> "findMatchingBracket", pair |-> pair,
                    other |-> IF pair = NoPair THEN NoPair
                              ELSE IF << pair[1], pair[2] >> = << cy, cx >>
                              THEN findMatchingBracket(lines, pair[3], pair[4])
                              ELSE findMatchingBracket(lines, pair[1], pair[2])])
    /\ UNCHANGED << edVars, inflight, budget, nkeys, lastKey, prevEd, opEd, run, saved, undone, leftAs, switches >>

NextBr == FindMatchingBracket

SpecBr == InitBr /\ [][NextBr]_vars

\* C10: when findMatchingBracket at an opening bracket returns a pair,
\* findMatchingBracket at the closing bracket of that pair returns the same
\* pair.
C10_BracketMatchSymmetric ==
    (/\ probe.fn = "findMatchingBracket"
     /\ probe.pair # NoPair
     /\ << probe.pair[1], probe.pair[2] >> = << cy, cx >>)
        => probe.other = probe.pair

-----------------------------------------------------------------------------
(* The editor under the keys that edit, undo, redo and save one buffer. *)

InitDirty ==
    \E path \in StartPaths : Load(refreshSize(NewEditor(path), ScreenW, ScreenH), MaxDirtyKeys)

NextDirty ==
    \/ KeyRune \/ KeyBackspace \/ KeyDelete
    \/ KeyCtrlZ \/ KeyCtrlE
    \/ KeyCtrlS \/ PromptSaveAs \/ PromptEscape

SpecDirty == InitDirty /\ [][NextDirty]_vars

\* C11: the dirty flag is true exactly when the lines differ from the
\* content last loaded from or saved to the file.
C11_DirtyIffChanged ==
    (~crashed /\ saved # NoSaved) => (dirty <=> lines # saved)

-----------------------------------------------------------------------------
(* The main loop together with the goroutines showError starts.  The
   dispatch of Down is taken in its two parts, so that a goroutine may run
   between them; the other keys are dispatched in one step. *)

InitTimer ==
    \E path \in StartPaths : Load(refreshSize(NewEditor(path), ScreenW, ScreenH), MaxTimerKeys)

\* Down up to e.cy++.
BeginDown ==
    /\ NoPromptOpen
    /\ nkeys < budget
    /\ ~crashed
    /\ inflight = NoFlight
    /\ inflight' = [name |-> "Down", moved |-> keyDownMoves(Ed), from |-> Ed]
    /\ Commit(keyDownStep(Ed))
    /\ UNCHANGED << budget, nkeys, lastKey, prevEd, opEd, run, saved, undone, leftAs, switches, probe >>

\* The rest of Down, on the editor as it is now.
FinishDown ==
    /\ inflight # NoFlight
    /\ ~crashed
    /\ Complete("Down", keyDownRest(Ed, inflight.moved), inflight.from)
    /\ inflight' = NoFlight

\* The goroutine of showError wakes up: when no later showError has reset
\* errorShowTime (it is the only one still asleep) it clears the banner and
\* calls render; probe keeps whether a key dispatch was under way, whether
\* render ran (it reads the lines and the cursor) and whether it changed the
\* lines, the cursor or the scroll offset.
TimerFires ==
    /\ timers > 0
    /\ ~crashed
    /\ With(IF timers = 1
            THEN render([Ed EXCEPT !.errorMessage = "", !.timers = 0])
            ELSE [Ed EXCEPT !.timers = @ - 1],
            LAMBDA e1 :
               /\ Commit(e1)
               /\ probe' = [fn |-> "timer",
                            dispatching |-> inflight # NoFlight,
                            rendered |-> timers = 1,
                            wrote |-> << e1.lines, e1.cx, e1.cy, e1.offsetY >>
                                        # << lines, cx, cy, offsetY >>])
    /\ UNCHANGED << inflight, budget, nkeys, lastKey, prevEd, opEd, run, saved, undone, leftAs, switches >>

NextTimer ==
    \/ KeyRune \/ KeyCtrlS
    \/ BeginDown \/ FinishDown
    \/ TimerFires

SpecTimer == InitTimer /\ [][NextTimer]_vars

\* C12: the goroutine of showError changes neither the lines nor the cursor
\* nor the scroll offset, and while a key dispatch is under way it does not
\* read them either.
C12_TimerLeavesContextAlone ==
    probe.fn = "timer"
        => /\ ~probe.wrote
           /\ probe.dispatching => ~probe.rendered

-----------------------------------------------------------------------------
(* The range of the selection, under SpecSel. *)

\* Position (l1, c1) is not after position (l2, c2) in document order.
NotAfter(l1, c1, l2, c2) == l1 < l2 \/ (l1 = l2 /\ c1 <= c2)

-----------------------------------------------------------------------------
(* The selection under the keys, under Spec. *)

\* The cursor is not where it was when the last key arrived.
CursorMoved == << cy, cx >> # << prevEd.cy, prevEd.cx >>

\* C14: a cursor key pressed without Shift while a selection is active
\* leaves the selection inactive.
C14_PlainMoveEndsSelection ==
    (/\ ~crashed
     /\ lastKey.name \in {"Up", "Down", "Left", "Right", "Home", "End", "PgUp", "PgDn"}
     /\ prevEd.selecting)
        => ~selecting /\ ~lineSelecting

\* C15: Backspace, Ctrl+X, Ctrl+K, Ctrl+U and Ctrl+Y pressed while a
\* selection is active leave the selection inactive.
C15_ConsumingKeyEndsSelection ==
    (/\ ~crashed
     /\ lastKey.name \in {"Backspace", "CtrlX", "CtrlK", "CtrlU", "CtrlY"}
     /\ prevEd.selecting)
        => ~selecting /\ ~lineSelecting

\* C16: Shift+Left that moves the cursor while a character-mode selection is
\* active switches the selection to line mode and keeps its anchor.
C16_LineGestureKeepsAnchor ==
    (/\ ~crashed
     /\ lastKey.name = "ShiftLeft"
     /\ prevEd.selecting /\ ~prevEd.lineSelecting
     /\ CursorMoved)
        => /\ selecting /\ lineSelecting
           /\ << selectStartY, selectStartX >> = << prevEd.selectStartY, prevEd.selectStartX >>

\* C17: Shift with an arrow key that moves the cursor while no selection is
\* active starts a character-mode selection anchored where the cursor was.
C17_ShiftArrowStartsSelection ==
    (/\ ~crashed
     /\ lastKey.name \in {"ShiftLeft", "ShiftRight", "ShiftUp", "ShiftDown"}
     /\ ~prevEd.selecting
     /\ CursorMoved)
        => /\ selecting /\ ~lineSelecting
           /\ << selectStartY, selectStartX >> = << prevEd.cy, prevEd.cx >>

-----------------------------------------------------------------------------
(* The editor started on project directories of several sizes, up to one
   that fills every canvas, under the keys that switch, create and open
   canvases and two keys that change the live context. *)

\* The numbers of supported files in the project directories.
ProjectSizes == {0, 1, 2, 98, 99, 100}

\* A project of n files, each "<i>/Makefile" holding "x", in the order the
\* range over the map yields them: ascending or descending.
BigProject(n, descending) ==
    [i \in 1 .. n |->
       << ToString(IF descending THEN n + 1 - i ELSE i) \o "/Makefile", << "x" >> >>]

InitCap ==
    \E n \in ProjectSizes, descending \in BOOLEAN :
       Load(refreshSize(NewEditorWithProject(ProjectDir, BigProject(n, descending)),
                        ScreenW, ScreenH),
            MaxCapKeys)

NextCap ==
    \/ KeyCtrlB \/ KeyCtrlN
    \/ KeyCtrlO \/ PromptOpen \/ PromptEscape
    \/ KeyRune \/ KeyEnter

SpecCap == InitCap /\ [][NextCap]_vars

\* The occupied id that follows cur in cyclic order: the smallest one
\* greater than cur, or the smallest one overall when none is greater.
FollowingId(ids, cur) ==
    IF \E i \in ids : i > cur
    THEN CHOOSE i \in ids : i > cur /\ \A j \in ids : j > cur => i <= j
    ELSE CHOOSE i \in ids : \A j \in ids : i <= j

\* C18: with at least two canvases Ctrl+B makes active the occupied id that
\* follows the current one in cyclic order, and a run of as many Ctrl+B keys
\* as there are canvases ends on the canvas it began on.
C18_SwitchFollowsCyclicOrder ==
    (/\ ~crashed
     /\ lastKey.name = "CtrlB"
     /\ Cardinality(DOMAIN prevEd.canvases) >= 2)
        => /\ currentCanvas = FollowingId(DOMAIN prevEd.canvases, prevEd.currentCanvas)
           /\ switches.n = Cardinality(DOMAIN canvases) => currentCanvas = switches.from

\* A run of three Ctrl+B keys over three canvases has come round.
C18_CycleClosed ==
    /\ ~crashed
    /\ lastKey.name = "CtrlB"
    /\ Cardinality(DOMAIN canvases) = 3
    /\ switches.n = 3
    /\ currentCanvas = switches.from

\* The live context of the claims about canvases.
LiveContext(e) ==
    [lines |-> e.lines, cx |-> e.cx, cy |-> e.cy, offsetY |-> e.offsetY,
     dirty |-> e.dirty, language |-> e.language,
     undoStack |-> e.undoStack, redoStack |-> e.redoStack]

\* C19: with exactly one canvas Ctrl+B leaves the active id and the live
\* context as they were and tells the user that there is no other canvas.
C19_SingleCanvasSwitchIsNoOp ==
    (/\ ~crashed
     /\ lastKey.name = "CtrlB"
     /\ Cardinality(DOMAIN prevEd.canvases) = 1)
        => /\ currentCanvas = prevEd.currentCanvas
           /\ LiveContext(Ed) = LiveContext(prevEd)
           /\ switchToNextCanvasNotice(prevEd) = NoOtherCanvases

\* The last key asked for a new canvas: Ctrl+N, or Enter in the open prompt
\* of a project on the name of a file of the project no canvas holds.
CanvasRequested ==
    \/ lastKey.name = "CtrlN"
    \/ \E name \in OpenNames :
          /\ lastKey.name = "Open:" \o name
          /\ prevEd.filename # NoFile /\ IsDir(prevEd.filename)
          /\ JoinPath(prevEd.filename, name) \in DOMAIN FileContent
          /\ \A n \in DOMAIN prevEd.canvases :
                prevEd.canvases[n].filename # JoinPath(prevEd.filename, name)

\* C20: at most MaxCanvases canvases, all under ids of 1 .. MaxCanvases, the
\* active id among them; no key removes a canvas or changes one that is
\* active neither before nor after it; and with MaxCanvases canvases a key
\* that asks for a new one raises the capacity banner and leaves the canvas
\* map, the active id and the live context as they were.
C20_CapacityKept ==
    /\ Cardinality(DOMAIN canvases) <= MaxCanvases
    /\ DOMAIN canvases \subseteq 1 .. MaxCanvases
    /\ currentCanvas \in DOMAIN canvases
    /\ ~crashed =>
          /\ DOMAIN prevEd.canvases \subseteq DOMAIN canvases
          /\ \A n \in DOMAIN prevEd.canvases \ {prevEd.currentCanvas, currentCanvas} :
                canvases[n] = prevEd.canvases[n]
    /\ (/\ ~crashed
        /\ Cardinality(DOMAIN prevEd.canvases) = MaxCanvases
        /\ CanvasRequested)
          => /\ errorMessage = "capacity"
             /\ canvases = prevEd.canvases
             /\ currentCanvas = prevEd.currentCanvas
             /\ LiveContext(Ed) = LiveContext(prevEd)

\* The file of a project that holds MaxCanvases canvases has been refused one.
C20_Refused ==
    /\ ~crashed
    /\ lastKey.name # "CtrlN"
    /\ Cardinality(DOMAIN prevEd.canvases) = MaxCanvases
    /\ CanvasRequested
    /\ errorMessage = "capacity"

-----------------------------------------------------------------------------
(* The editor started on a project directory, the user reading the overview
   and editing the canvases of files: the keys that change the active
   canvas, Down, and, while the canvas of a file is active, the keys that
   edit, undo and redo. *)

InitFrame ==
    Load(refreshSize(NewEditorWithProject(ProjectDir, readProjectFiles), ScreenW, ScreenH),
         MaxFrameKeys)

\* The active canvas holds a file, not the overview of the directory.
FileCanvasActive == filename = NoFile \/ ~IsDir(filename)

NextFrame ==
    \/ KeyDown
    \/ KeyCtrlB \/ KeyCtrlN
    \/ KeyCtrlO \/ PromptOpen \/ PromptEscape
    \/ (FileCanvasActive /\ KeyRune)
    \/ (FileCanvasActive /\ KeyCtrlZ)
    \/ (FileCanvasActive /\ KeyCtrlE)

SpecFrame == InitFrame /\ [][NextFrame]_vars

\* C21: an edit, an undo or a redo leaves the active canvas active and every
\* other stored canvas as it was, and a canvas Ctrl+B comes back to from a
\* canvas that has been edited has the lines, the cursor, the dirty flag and
\* the undo and redo stacks it had when it was left.
C21_EditsLeaveOtherCanvasesAlone ==
    ~crashed =>
       /\ lastKey.kind \in {"edit", "undo", "redo"} =>
             /\ currentCanvas = prevEd.currentCanvas
             /\ \A n \in DOMAIN prevEd.canvases \ {currentCanvas} :
                   n \in DOMAIN canvases /\ canvases[n] = prevEd.canvases[n]
       /\ (/\ lastKey.name = "CtrlB"
           /\ currentCanvas # prevEd.currentCanvas
           /\ prevEd.undoStack # << >>
           /\ currentCanvas \in DOMAIN leftAs)
             => Context(Ed) = leftAs[currentCanvas]

-----------------------------------------------------------------------------
(* wrapLine applied to one line at one content width: any line of WrapLines,
   bytes that are not UTF-8 included, at any width of 1 .. MaxWrapW. *)

WrapRunes == {"a", " ", TAB, WIDE, BadByte}

WrapLines == SeqsUpTo(WrapRunes, MaxWrapLen)

InitWrap ==
    \E line \in WrapLines, W \in 1 .. MaxWrapW :
        Load([blankEditor EXCEPT !.lines = << line >>, !.contentWidth = W], 0)

\* wrapLine on the line of the document.
WrapLine ==
    /\ probe = NoProbe
    /\ probe' = [fn |-> "wrapLine", parts |-> wrapLine(LineAt(lines, 0), contentWidth)]
    /\ UNCHANGED << edVars, inflight, budget, nkeys, lastKey, prevEd, opEd, run, saved, undone, leftAs, switches >>

NextWrap == WrapLine

SpecWrap == InitWrap /\ [][NextWrap]_vars

\* C22: wrapLine returns at least one segment, its segments concatenated in
\* order are the line, and a segment is empty only when the line is, in
\* which case it is the only one.
C22_WrapKeepsLine ==
    probe.fn = "wrapLine" =>
        /\ Len(probe.parts) >= 1
        /\ Concat(probe.parts) = LineAt(lines, 0)
        /\ \A k \in 1 .. Len(probe.parts) : probe.parts[k] = << >> => LineAt(lines, 0) = << >>
        /\ LineAt(lines, 0) = << >> => probe.parts = << << >> >>

-----------------------------------------------------------------------------
(* cursorDisplayPosition applied at one valid cursor position of one
   document: any document of PosDocs at any width of 1 .. MaxPosW. *)

PosRunes == {"a", TAB, MARK}

PosDocs == SeqsUpTo(SeqsUpTo(PosRunes, MaxPosLen), MaxPosLines) \ {<< >>}

InitPos ==
    \E ls \in PosDocs, W \in 1 .. MaxPosW, y \in 0 .. MaxPosLines - 1, x \in 0 .. MaxPosLen :
        /\ IsPosition(ls, y, x)
        /\ Load([blankEditor EXCEPT !.lines = ls, !.contentWidth = W,
                                    !.cx = x, !.cy = y], 0)

\* cursorDisplayPosition on the live editor; probe keeps the visual row and
\* the cell column.
CursorDisplayPosition ==
    /\ probe = NoProbe
    /\ probe' = With(cursorDisplayPosition(Ed), LAMBDA pos :
                   [fn |-> "cursorDisplayPosition", row |-> pos.row, col |-> pos.col])
    /\ UNCHANGED << edVars, inflight, budget, nkeys, lastKey, prevEd, opEd, run, saved, undone, leftAs, switches >>

NextPos == CursorDisplayPosition

SpecPos == InitPos /\ [][NextPos]_vars

\* The visual position cursorDisplayPosition gives the cursor position (y, x).
VisualAt(y, x) ==
    With(cursorDisplayPosition([Ed EXCEPT !.cy = y, !.cx = x]), LAMBDA pos :
       << pos.row, pos.col >>)

\* C23: no valid cursor position other than the cursor's has the visual row
\* and cell column cursorDisplayPosition gives the cursor.
C23_VisualPositionInvertible ==
    probe.fn = "cursorDisplayPosition" =>
        \A y \in 0 .. Len(lines) - 1 : \A x \in 0 .. Len(LineAt(lines, y)) :
            << y, x >> # << cy, cx >> => VisualAt(y, x) # << probe.row, probe.col >>

-----------------------------------------------------------------------------
(* ensureVisible called twice in a row: any document of VisDocs with any
   valid cursor, at any width of 1 .. MaxVisW, with 1 .. MaxVisRows visible
   rows and any scroll offset of 0 .. MaxVisOff. *)

VisDocs == SeqsUpTo({Take(<< "a", "b", "c", "d" >>, k) : k \in 0 .. MaxVisLen}, MaxVisLines)
               \ {<< >>}

InitVis ==
    \E ls \in VisDocs, W \in 1 .. MaxVisW, rows \in 1 .. MaxVisRows, off \in 0 .. MaxVisOff,
       y \in 0 .. MaxVisLines - 1, x \in 0 .. MaxVisLen :
        /\ IsPosition(ls, y, x)
        /\ Load([blankEditor EXCEPT !.lines = ls, !.cx = x, !.cy = y,
                                    !.contentWidth = W, !.contentHeight = rows + 4,
                                    !.height = rows + 4, !.offsetY = off], 0)

\* The part of the editor ensureVisible may change.
View(e) == << e.offsetY, e.cx, e.cy, e.lines >>

\* ensureVisible on the live editor, up to twice; probe keeps the scroll
\* offset before the first call and the view after it.
EnsureVisible ==
    /\ probe = NoProbe \/ (probe.fn = "ensureVisible" /\ probe.calls = 1)
    /\ Commit(ensureVisible(Ed))
    /\ probe' = IF probe = NoProbe
                THEN [fn |-> "ensureVisible", calls |-> 1, before |-> offsetY,
                      first |-> View(ensureVisible(Ed))]
                ELSE [probe EXCEPT !.calls = 2]
    /\ UNCHANGED << inflight, budget, nkeys, lastKey, prevEd, opEd, run, saved, undone, leftAs, switches >>

NextVis == EnsureVisible

SpecVis == InitVis /\ [][NextVis]_vars

\* C24: after the second of two calls of ensureVisible in a row the scroll
\* offset, the cursor and the lines are those after the first call.
C24_EnsureVisibleIdempotent ==
    (probe.fn = "ensureVisible" /\ probe.calls = 2) => View(Ed) = probe.first

\* Two calls have been made, the first of which scrolled.
C24_ScrolledOnce ==
    /\ probe.fn = "ensureVisible" /\ probe.calls = 2
    /\ probe.before # probe.first[1]
    /\ offsetY = probe.first[1]

-----------------------------------------------------------------------------
(* insertTextAtCursor and pasteFromClipboard applied once: any document of
   InsDocs with any valid cursor, any text of InsTexts. *)

InsDocs == SeqsUpTo({Take(<< "a", "b", "c", "d" >>, k) : k \in 0 .. MaxInsLen}, MaxInsLines)
               \ {<< >>}

InsTexts == SeqsUpTo({"x", NL, CR}, MaxInsText)

InitIns ==
    \E ls \in InsDocs, y \in 0 .. MaxInsLines - 1, x \in 0 .. MaxInsLen :
        /\ IsPosition(ls, y, x)
        /\ Load([refreshSize(NewEditor(NoFile), ScreenW, ScreenH) EXCEPT
                    !.lines = ls, !.cx = x, !.cy = y], 0)

\* insertTextAtCursor(text) on the live editor; probe keeps the text and the
\* document and cursor it was inserted at.
InsertTextAtCursor ==
    /\ probe = NoProbe
    /\ \E text \in InsTexts :
          /\ Commit(insertTextAtCursor(Ed, text))
          /\ probe' = [fn |-> "insertTextAtCursor", text |-> text,
                       lines |-> lines, cy |-> cy, cx |-> cx]
    /\ UNCHANGED << inflight, budget, nkeys, lastKey, prevEd, opEd, run, saved, undone, leftAs, switches >>

\* pasteFromClipboard with the clipboard holding text; probe keeps the text
\* as pasteFromClipboard inserts it, its line endings made newlines.
PasteFromClipboard ==
    /\ probe = NoProbe
    /\ \E text \in InsTexts :
          /\ Commit(pasteFromClipboard(Ed, text))
          /\ probe' = [fn |-> "pasteFromClipboard", text |-> NormalizeNewlines(text),
                       lines |-> lines, cy |-> cy, cx |-> cx]
    /\ UNCHANGED << inflight, budget, nkeys, lastKey, prevEd, opEd, run, saved, undone, leftAs, switches >>

NextIns == InsertTextAtCursor \/ PasteFromClipboard

SpecIns == InitIns /\ [][NextIns]_vars

\* The offset of the position (y, x) in the lines joined by newlines.
OffsetOf(ls, y, x) == Len(Join(Take(ls, y))) + (IF y > 0 THEN 1 ELSE 0) + x

\* The number of newlines in t.
Newlines(t) == Cardinality({i \in DOMAIN t : t[i] = NL})

\* The lines of the joined document ls with t spliced in at offset off.
Spliced(ls, off, t) == Split(Take(Join(ls), off) \o t \o Drop(Join(ls), off))

\* C25: after the insertion of a text at a valid cursor the document is the
\* joined document with the text spliced in at the cursor, split on newlines
\* again; it has as many more lines as the text has newlines; and the cursor
\* is just after the last inserted rune.
C25_InsertIsSplice ==
    probe.fn \in {"insertTextAtCursor", "pasteFromClipboard"} =>
        /\ ~crashed
        /\ lines = Spliced(probe.lines, OffsetOf(probe.lines, probe.cy, probe.cx), probe.text)
        /\ Len(lines) = Len(probe.lines) + Newlines(probe.text)
        /\ cy = probe.cy + Newlines(probe.text)
        /\ OffsetOf(lines, cy, cx)
              = OffsetOf(probe.lines, probe.cy, probe.cx) + Len(probe.text)

\* A text of three segments, the middle one not empty, has been inserted
\* inside a line.
C25_ThreeSegmentsInserted ==
    /\ probe.fn = "insertTextAtCursor"
    /\ Newlines(probe.text) = 2
    /\ Split(probe.text)[2] # << >>
    /\ 0 < probe.cx /\ probe.cx < Len(LineAt(probe.lines, probe.cy))

\* ---------------------------------------------------------------------
\* backspace on its own: every document of up to MaxBsLines lines of up to
\* MaxBsLen runes, every valid cursor, either value of the dirty flag, and
\* an undo and a redo stack that are empty or hold one snapshot.
BsDocs == SeqsUpTo({Take(<< "a", "b", "c", "d" >>, k) : k \in 0 .. MaxBsLen}, MaxBsLines)
             \ {<< >>}

BsStacks == {<< >>, << EditorState(<< << "z" >> >>, 0, 0) >>}

InitBs ==
    \E ls \in BsDocs, y \in 0 .. MaxBsLines - 1, x \in 0 .. MaxBsLen,
       d \in BOOLEAN, us \in BsStacks, rs \in BsStacks :
        /\ IsPosition(ls, y, x)
        /\ Load([refreshSize(NewEditor(NoFile), ScreenW, ScreenH) EXCEPT
                    !.lines = ls, !.cx = x, !.cy = y, !.dirty = d,
                    !.undoStack = us, !.redoStack = rs], 0)

Backspace ==
    /\ probe = NoProbe
    /\ Commit(backspace(Ed))
    /\ probe' = [fn |-> "backspace", before |-> Ed]
    /\ UNCHANGED << inflight, budget, nkeys, lastKey, prevEd, opEd, run, saved, undone, leftAs, switches >>

NextBs == Backspace

SpecBs == InitBs /\ [][NextBs]_vars

\* C26: backspace with the cursor after column 0 removes the rune before the
\* cursor and moves the cursor one column left; at column 0 of a line other
\* than the first it appends the line to the previous one, removes it and
\* puts the cursor at the join; at line 0, column 0 it leaves the lines, the
\* cursor, the dirty flag, the undo stack and the redo stack as they were.
C26_BackspaceCases ==
    probe.fn = "backspace" =>
        /\ ~crashed
        /\ probe.before.cx > 0 =>
              /\ Len(lines) = Len(probe.before.lines)
              /\ \A i \in 0 .. Len(lines) - 1 :
                    i # probe.before.cy => LineAt(lines, i) = LineAt(probe.before.lines, i)
              /\ LineAt(lines, cy)
                    = Take(LineAt(probe.before.lines, cy), probe.before.cx - 1)
                        \o Drop(LineAt(probe.before.lines, cy), probe.before.cx)
              /\ cy = probe.before.cy /\ cx = probe.before.cx - 1
        /\ (probe.before.cx = 0 /\ probe.before.cy > 0) =>
              /\ Len(lines) = Len(probe.before.lines) - 1
              /\ cy = probe.before.cy - 1
              /\ cx = Len(LineAt(probe.before.lines, cy))
              /\ LineAt(lines, cy) = LineAt(probe.before.lines, cy)
                                       \o LineAt(probe.before.lines, cy + 1)
              /\ \A i \in 0 .. Len(lines) - 1 :
                    /\ i < cy => LineAt(lines, i) = LineAt(probe.before.lines, i)
                    /\ i > cy => LineAt(lines, i) = LineAt(probe.before.lines, i + 1)
        /\ (probe.before.cx = 0 /\ probe.before.cy = 0) =>
              /\ lines = probe.before.lines
              /\ cx = 0 /\ cy = 0
              /\ dirty = probe.before.dirty
              /\ undoStack = probe.before.undoStack
              /\ redoStack = probe.before.redoStack

\* backspace has run at the start of a clean document that has something to
\* redo.
C26_AtDocumentStart ==
    /\ probe.fn = "backspace"
    /\ probe.before.cx = 0 /\ probe.before.cy = 0
    /\ ~probe.before.dirty
    /\ probe.before.redoStack # << >>
    /\ Len(probe.before.lines) > 1

\* C27: deleteSelection on a line-mode selection of the lines a..b leaves
\* the other lines in their order, or a single empty line when the selection
\* covers every line, with the cursor at column 0 of the line now at
\* position a, or of the last line.
C27_LineDeleteKeepsOtherLines ==
    (probe.fn = "deleteSelection" /\ prevEd.lineSelecting) =>
        /\ ~crashed
        /\ lines = IF probe.range[3] - probe.range[1] + 1 = Len(prevEd.lines)
                   THEN << << >> >>
                   ELSE Take(prevEd.lines, probe.range[1])
                          \o Drop(prevEd.lines, probe.range[3] + 1)
        /\ Len(lines) >= 1
        /\ cx = 0
        /\ cy = Min(probe.range[1], Len(lines) - 1)

\* ---------------------------------------------------------------------
\* The comment toggle on its own: a Python document of one line of up to
\* MaxTogLen runes of blanks, hashes and letters, the line selected in line
\* mode or not, and the toggle applied up to twice as Ctrl+K applies it.
TogLines == SeqsUpTo({" ", "#", "a"}, MaxTogLen)

InitTog ==
    \E l \in TogLines, sel \in BOOLEAN :
        Load([refreshSize(NewEditor(NoFile), ScreenW, ScreenH) EXCEPT
                 !.lines = << l >>, !.language = LangPython,
                 !.selecting = sel, !.lineSelecting = sel], 0)

ToggleComment ==
    /\ probe = NoProbe \/ (probe.fn = "toggleComment" /\ probe.calls < 2)
    /\ Commit(IF Ed.selecting /\ Ed.lineSelecting
              THEN toggleCommentSelection(Ed) ELSE toggleCommentLine(Ed))
    /\ probe' = IF probe = NoProbe
                THEN [fn |-> "toggleComment", calls |-> 1, line |-> LineAt(lines, 0)]
                ELSE [probe EXCEPT !.calls = 2]
    /\ UNCHANGED << inflight, budget, nkeys, lastKey, prevEd, opEd, run, saved, undone, leftAs, switches >>

NextTog == ToggleComment

SpecTog == InitTog /\ [][NextTog]_vars

\* C28: in a language with a line-comment prefix, the line toggled twice is
\* the line it was, whatever its content.
C28_ToggleTwiceRestores ==
    (probe.fn = "toggleComment" /\ probe.calls = 2) =>
        /\ ~crashed
        /\ LineAt(lines, 0) = probe.line

\* ---------------------------------------------------------------------
\* Loading files of every content of up to MaxLoadLen runes over a letter,
\* CR and NL: the editor starts on such a file or on a project whose scan
\* returned it, and then opens another such file, in place or in a new
\* canvas.
LoadTexts == SeqsUpTo({"a", CR, NL}, MaxLoadLen)

StartFs(t) == (<< "f.txt" >> :> t)

OpenFs(t) == (<< "g.txt" >> :> t) @@ (<< "dir", "g.txt" >> :> t)

InitLoad ==
    \E t \in LoadTexts, project \in BOOLEAN :
        Load(refreshSize(IF project
                         THEN NewEditorWithProject(ProjectDir, << << "a.py", t >> >>)
                         ELSE NewEditorFrom(StartFs(t), << "f.txt" >>),
                         ScreenW, ScreenH), 0)

OpenFile ==
    /\ probe = NoProbe
    /\ \E t \in LoadTexts :
          /\ Commit(openFileFrom(OpenFs(t), Ed, "g.txt"))
          /\ probe' = [fn |-> "openFile", content |-> t]
    /\ UNCHANGED << inflight, budget, nkeys, lastKey, prevEd, opEd, run, saved, undone, leftAs, switches >>

OpenOrCreateCanvasForFile ==
    /\ probe = NoProbe
    /\ filename # NoFile /\ IsDir(filename)
    /\ \E t \in LoadTexts :
          /\ Commit(openOrCreateCanvasForFileFrom(OpenFs(t), Ed, JoinPath(filename, "g.txt")))
          /\ probe' = [fn |-> "openOrCreateCanvasForFile", content |-> t]
    /\ UNCHANGED << inflight, budget, nkeys, lastKey, prevEd, opEd, run, saved, undone, leftAs, switches >>

NextLoad == OpenFile \/ OpenOrCreateCanvasForFile

SpecLoad == InitLoad /\ [][NextLoad]_vars

HasLineEnding(l) == \E i \in DOMAIN l : l[i] \in {CR, NL}

\* C29: after a load (at start-up, by the project scan, by openFile or into
\* a new canvas) no line of the live buffer or of a stored canvas contains a
\* carriage return or a newline.
C29_NoLineEndingInLines ==
    /\ ~crashed
    /\ \A i \in DOMAIN lines : ~HasLineEnding(lines[i])
    /\ \A n \in DOMAIN canvases :
          \A i \in DOMAIN canvases[n].lines : ~HasLineEnding(canvases[n].lines[i])

\* ---------------------------------------------------------------------
\* Input errors: the editor started on a file, on nothing or on a project,
\* and up to MaxErrKeys keys that type, move, undo, and open and submit the
\* line, search and open prompts.
InitErr ==
    \/ \E path \in StartPaths :
          Load(refreshSize(NewEditor(path), ScreenW, ScreenH), MaxErrKeys)
    \/ Load(refreshSize(NewEditorWithProject(ProjectDir, readProjectFiles), ScreenW, ScreenH),
            MaxErrKeys)

NextErr ==
    \/ KeyRune \/ KeyRight \/ KeyCtrlZ
    \/ KeyCtrlG \/ PromptGoto
    \/ KeyCtrlF \/ PromptSearch
    \/ KeyCtrlO \/ PromptOpen

SpecErr == InitErr /\ [][NextErr]_vars

\* The path openFile and openProjectFile read for a typed name.
OpenPath(e, name) ==
    IF e.filename # NoFile /\ IsDir(e.filename) THEN JoinPath(e.filename, name) ELSE << name >>

\* The last key submitted a line number that is no positive number, an
\* empty search query, or the name of a file that cannot be read.
InputErrorKey ==
    \/ lastKey.name \in {"GotoInvalid", "SearchEmpty"}
    \/ \E name \in OpenNames :
          /\ lastKey.name = "Open:" \o name
          /\ OpenPath(prevEd, name) \notin DOMAIN FileContent

RECURSIVE PositionBefore(_, _, _)
PositionBefore(ls, y, x) ==
    IF x > 0 THEN << y, x - 1 >>
    ELSE IF y = 0 THEN << -1, -1 >>
    ELSE PositionBefore(ls, y - 1, Len(LineAt(ls, y - 1)))

\* The position after (y, x) in document order, << -1, -1 >> at the end.
RECURSIVE PositionAfter(_, _, _)
PositionAfter(ls, y, x) ==
    IF x + 1 < Len(LineAt(ls, y)) THEN << y, x + 1 >>
    ELSE IF y + 1 >= Len(ls) THEN << -1, -1 >>
    ELSE PositionAfter(ls, y + 1, -1)

\* The opening bracket that balances the closing bracket at (y0, x0): the
\* runes before (y, x) are still to be read and nesting closing brackets
\* are open.
RECURSIVE BalancingOpen(_, _, _, _, _, _)
BalancingOpen(ls, y0, x0, y, x, nesting) ==
    With(PositionBefore(ls, y, x), LAMBDA p :
       IF p[1] < 0 THEN NoPair
       ELSE With(LineAt(ls, p[1])[p[2] + 1], LAMBDA char :
               IF char = LineAt(ls, y0)[x0 + 1]
               THEN BalancingOpen(ls, y0, x0, p[1], p[2], nesting + 1)
               ELSE IF char = bracketPartner(LineAt(ls, y0)[x0 + 1])
               THEN IF nesting = 1 THEN BracketPair(p[1], p[2], y0, x0)
                    ELSE BalancingOpen(ls, y0, x0, p[1], p[2], nesting - 1)
               ELSE BalancingOpen(ls, y0, x0, p[1], p[2], nesting)))

\* The closing bracket that balances the opening bracket at (y0, x0).
RECURSIVE BalancingClose(_, _, _, _, _, _)
BalancingClose(ls, y0, x0, y, x, nesting) ==
    With(PositionAfter(ls, y, x), LAMBDA p :
       IF p[1] < 0 THEN NoPair
       ELSE With(LineAt(ls, p[1])[p[2] + 1], LAMBDA char :
               IF char = LineAt(ls, y0)[x0 + 1]
               THEN BalancingClose(ls, y0, x0, p[1], p[2], nesting + 1)
               ELSE IF char = bracketPartner(LineAt(ls, y0)[x0 + 1])
               THEN IF nesting = 1 THEN BracketPair(y0, x0, p[1], p[2])
                    ELSE BalancingClose(ls, y0, x0, p[1], p[2], nesting - 1)
               ELSE BalancingClose(ls, y0, x0, p[1], p[2], nesting)))

\* The rune under the cursor, "" past the end of the line.
RuneAtCursor == IF cx < Len(LineAt(lines, cy)) THEN LineAt(lines, cy)[cx + 1] ELSE ""

\* C31: at a closing bracket the scan returns the opening bracket that
\* balances it over the runes before it in document order, on whatever
\* line it is, and no pair when there is none.
C31_BackwardScanBalances ==
    (probe.fn = "findMatchingBracket" /\ RuneAtCursor \in closeBrackets)
        => probe.pair = BalancingOpen(lines, cy, cx, cy, cx, 1)

\* C32: at an opening bracket the scan returns the first position after it
\* in document order where the nesting count, started at 1, is back at 0,
\* and no pair when it never is.
C32_ForwardScanBalances ==
    (probe.fn = "findMatchingBracket" /\ RuneAtCursor \in openBrackets)
        => probe.pair = BalancingClose(lines, cy, cx, cy, cx, 1)

\* The forward scan has found, on a later line, the closing bracket of an
\* opening bracket that has a nested pair behind it.
C32_NestedPairAcrossLines ==
    /\ probe.fn = "findMatchingBracket"
    /\ RuneAtCursor \in openBrackets
    /\ probe.pair # NoPair
    /\ probe.pair[3] > cy
    /\ \E x \in cx + 1 .. Len(LineAt(lines, cy)) - 1 : LineAt(lines, cy)[x + 1] \in openBrackets

\* ---------------------------------------------------------------------
\* The width of the segments of wrapLine, under SpecWrap.

\* The cells a segment occupies by the measure of cursorDisplayPosition.
SegmentCells(seg) == segCells(seg, Len(seg), 0)

\* C33: every segment of more than one rune occupies at most the content
\* width, its tabs expanded from the segment's own column 0.
C33_SegmentsFitWidth ==
    probe.fn = "wrapLine" =>
        \A k \in DOMAIN probe.parts :
            Len(probe.parts[k]) > 1 => SegmentCells(probe.parts[k]) <= contentWidth

\* C34: a line whose display width, tabs expanded and every other rune
\* taken at its width in cells, is at most the content width comes back as
\* a single segment.
C34_FittingLineIsOneSegment ==
    (probe.fn = "wrapLine" /\ SegmentCells(Runes(LineAt(lines, 0))) <= contentWidth)
        => Len(probe.parts) = 1

\* ---------------------------------------------------------------------
\* deleteWordAfterCursor on its own: every document of up to MaxDwLines
\* lines of up to MaxDwLen letters and blanks, every valid cursor, either
\* value of the dirty flag, and an undo and a redo stack that are empty or
\* hold one snapshot.
DwDocs == SeqsUpTo(SeqsUpTo({"a", " "}, MaxDwLen), MaxDwLines) \ {<< >>}

InitDw ==
    \E ls \in DwDocs, y \in 0 .. MaxDwLines - 1, x \in 0 .. MaxDwLen,
       d \in BOOLEAN, us \in BsStacks, rs \in BsStacks :
        /\ IsPosition(ls, y, x)
        /\ Load([refreshSize(NewEditor(NoFile), ScreenW, ScreenH) EXCEPT
                    !.lines = ls, !.cx = x, !.cy = y, !.dirty = d,
                    !.undoStack = us, !.redoStack = rs], 0)

DeleteWordAfterCursor ==
    /\ probe = NoProbe
    /\ Commit(deleteWordAfterCursor(Ed))
    /\ probe' = [fn |-> "deleteWordAfterCursor", before |-> Ed]
    /\ UNCHANGED << inflight, budget, nkeys, lastKey, prevEd, opEd, run, saved, undone, leftAs, switches >>

NextDw == DeleteWordAfterCursor

SpecDw == InitDw /\ [][NextDw]_vars

\* The runes of the 0-based range a .. b-1 of l are all non-white.
SolidRange(l, a, b) == \A k \in a + 1 .. b : ~IsSpace(l[k])

\* The 0-based range << start, end >> of the word of l that deleting at
\* column x removes: the word x is in or at the end of, else the next word
\* after the white space at x; << -1, -1 >> when the line has none.
WordToDelete(l, x) ==
    IF x >= Len(l) THEN << -1, -1 >>
    ELSE IF x > 0 /\ ~IsSpace(l[x])
    THEN << CHOOSE a \in 0 .. x - 1 :
                SolidRange(l, a, x) /\ (a = 0 \/ IsSpace(l[a])),
            CHOOSE b \in x .. Len(l) :
                SolidRange(l, x, b) /\ (b = Len(l) \/ IsSpace(l[b + 1])) >>
    ELSE IF \A k \in x + 1 .. Len(l) : IsSpace(l[k]) THEN << -1, -1 >>
    ELSE With(CHOOSE a \in x .. Len(l) - 1 :
                 ~IsSpace(l[a + 1]) /\ \A k \in x + 1 .. a : IsSpace(l[k]), LAMBDA a :
            << a, CHOOSE b \in a + 1 .. Len(l) :
                     SolidRange(l, a, b) /\ (b = Len(l) \/ IsSpace(l[b + 1])) >>)

\* C35: deleteWordAfterCursor removes the word the cursor is in or at the
\* end of, else the next word of the line, keeping the white space before
\* it; with no word left on a line that is not the last it joins the next
\* line; the cursor ends at the start of what was removed; and when nothing
\* can be removed the lines, the cursor, the undo stack, the redo stack and
\* the dirty flag stay as they were.
C35_DeleteWordCases ==
    probe.fn = "deleteWordAfterCursor" =>
        With(LineAt(probe.before.lines, probe.before.cy), LAMBDA l :
        With(WordToDelete(LineAt(probe.before.lines, probe.before.cy), probe.before.cx),
             LAMBDA w :
           /\ ~crashed
           /\ cy = probe.before.cy
           /\ w[1] >= 0 =>
                 /\ lines = SetLine(probe.before.lines, cy, Take(l, w[1]) \o Drop(l, w[2]))
                 /\ cx = w[1]
           /\ (w[1] < 0 /\ cy < Len(probe.before.lines) - 1) =>
                 /\ lines = RemoveLines(SetLine(probe.before.lines, cy,
                                                l \o LineAt(probe.before.lines, cy + 1)),
                                        cy + 1, cy + 2)
                 /\ cx = Len(l)
           /\ (w[1] < 0 /\ cy = Len(probe.before.lines) - 1) =>
                 /\ lines = probe.before.lines
                 /\ cx = probe.before.cx
                 /\ undoStack = probe.before.undoStack
                 /\ redoStack = probe.before.redoStack
                 /\ dirty = probe.before.dirty))

\* ---------------------------------------------------------------------
\* The window of ensureVisible, under SpecVis.

\* The number of rows of the window.
VisibleRows == Max(1, contentHeight - 4)

\* The absolute visual row of the cursor.
CursorRow == cursorDisplayPosition(Ed).row

\* C36: after ensureVisible the cursor's row r is inside the window,
\* 0 <= offset <= r < offset + visibleRows; the offset is the old one when r
\* was inside the old window, r when r was above it, and r - visibleRows + 1
\* when r was at or below its end.
C36_CursorRowInWindow ==
    (probe.fn = "ensureVisible" /\ probe.calls = 1) =>
        /\ 0 <= offsetY /\ offsetY <= CursorRow /\ CursorRow < offsetY + VisibleRows
        /\ (probe.before <= CursorRow /\ CursorRow < probe.before + VisibleRows)
              => offsetY = probe.before
        /\ CursorRow < probe.before => offsetY = CursorRow
        /\ CursorRow >= probe.before + VisibleRows => offsetY = CursorRow - VisibleRows + 1

\* ensureVisible has scrolled down a window of more than one row.
C36_ScrolledDown ==
    /\ probe.fn = "ensureVisible" /\ probe.calls = 1
    /\ VisibleRows > 1
    /\ CursorRow >= probe.before + VisibleRows

\* ---------------------------------------------------------------------
\* The goroutine of showError step by step: its test of errorShowTime and
\* its write of errorMessage are two steps, and the main loop, which shares
\* the editor with it without any lock, may run between them.

\* The goroutine that has slept longest wakes up and tests errorShowTime.
\* With a later showError still asleep the test fails and the goroutine
\* ends; otherwise it goes on to clear the banner, and probe keeps the
\* message it has seen.
TimerChecks ==
    /\ timers > 0
    /\ ~crashed
    /\ probe.fn # "timerChecked"
    /\ Commit([Ed EXCEPT !.timers = @ - 1])
    /\ probe' = IF timers = 1 THEN [fn |-> "timerChecked", seen |-> errorMessage]
                ELSE NoProbe
    /\ UNCHANGED << inflight, budget, nkeys, lastKey, prevEd, opEd, run, saved, undone, leftAs, switches >>

\* The goroutine that passed the test clears the banner and renders; probe
\* keeps the message it cleared and whether a showError has run since the
\* test (its goroutine is asleep).
TimerClears ==
    /\ probe.fn = "timerChecked"
    /\ ~crashed
    /\ Commit(render([Ed EXCEPT !.errorMessage = ""]))
    /\ probe' = [fn |-> "timerCleared", seen |-> probe.seen, cleared |-> errorMessage,
                 later |-> timers > 0]
    /\ UNCHANGED << inflight, budget, nkeys, lastKey, prevEd, opEd, run, saved, undone, leftAs, switches >>

NextBanner ==
    \/ KeyRune \/ KeyCtrlS
    \/ KeyCtrlO \/ PromptOpen
    \/ TimerChecks \/ TimerClears

SpecBanner == InitTimer /\ [][NextBanner]_vars

\* C37: the goroutine of a showError clears the banner only when no later
\* showError has happened: the message it clears is the one it was started
\* for.
C37_TimerClearsOnlyItsOwnMessage ==
    probe.fn = "timerCleared" => ~probe.later

\* ---------------------------------------------------------------------
\* The exit flow of Ctrl+Q (ExitManager), under SpecExit.

MaxExitKeys == 6

\* The prompt of promptForCanvasSave with what its callback has captured:
\* the exit manager (canvasesToSave, currentPrompt) and the canvas asked
\* about.
ExitPrompt(canvasesToSave, currentPrompt, canvasNum) ==
    [kind |-> "exit", hasSelection |-> FALSE, canvasesToSave |-> canvasesToSave,
     currentPrompt |-> currentPrompt, canvasNum |-> canvasNum]

\* The "Save as (path)" prompt of saveCanvas with what its callback has
\* captured.
ExitSaveAsPrompt(canvasNum, oldCanvas) ==
    [kind |-> "exitsaveas", hasSelection |-> FALSE, canvasNum |-> canvasNum,
     oldCanvas |-> oldCanvas]

\* What the exit handlers return: the editor, the canvases whose write
\* succeeded and those whose write failed.
Exited(e, wrote, failed) == [e |-> e, wrote |-> wrote, failed |-> failed]

finishExit(e) == [e EXCEPT !.quit = TRUE]

cancelExit(e) == [e EXCEPT !.prompt = NoPrompt]

promptForCanvasSave(e, canvasesToSave, currentPrompt, canvasNum) ==
    [e EXCEPT !.prompt = ExitPrompt(canvasesToSave, currentPrompt, canvasNum)]

\* processNextCanvas; currentPrompt is the 0-based index of the source.
processNextCanvas(e, canvasesToSave, currentPrompt) ==
    IF currentPrompt + 1 >= Len(canvasesToSave) THEN finishExit(e)
    ELSE promptForCanvasSave(e, canvasesToSave, currentPrompt + 1,
                             canvasesToSave[currentPrompt + 2])

\* persist from the exit flow, and the sync that follows its success.
persistCanvas(e, writeOk) ==
    IF writeOk THEN syncEditorToCanvas(persist(e, TRUE)) ELSE persist(e, FALSE)

\* saveCanvas: a canvas with a file name is written at once; for one
\* without, the "Save as" prompt is shown and saveCanvas returns, the
\* canvas still being the active one.  writable is the set of canvases
\* whose write succeeds.
saveCanvas(e, canvasNum, writable) ==
    With(syncCanvasToEditor([e EXCEPT !.currentCanvas = canvasNum]), LAMBDA e1 :
       IF e1.filename = NoFile
       THEN Exited([e1 EXCEPT !.prompt = ExitSaveAsPrompt(canvasNum, e.currentCanvas)], {}, {})
       ELSE With(persistCanvas(e1, canvasNum \in writable), LAMBDA e2 :
               Exited(syncCanvasToEditor([e2 EXCEPT !.currentCanvas = e.currentCanvas]),
                      {canvasNum} \cap writable, {canvasNum} \ writable)))

\* The loop of saveAllRemainingCanvases from index i (0-based).
RECURSIVE saveAllLoop(_, _, _, _)
saveAllLoop(x, canvasesToSave, i, writable) ==
    IF i >= Len(canvasesToSave) THEN x
    ELSE With(canvasesToSave[i + 1], LAMBDA canvasNum :
         With(syncCanvasToEditor([x.e EXCEPT !.currentCanvas = canvasNum]), LAMBDA e1 :
            IF e1.filename = NoFile
            THEN saveAllLoop(Exited(e1, x.wrote, x.failed), canvasesToSave, i + 1, writable)
            ELSE saveAllLoop(Exited(persistCanvas(e1, canvasNum \in writable),
                                    x.wrote \cup ({canvasNum} \cap writable),
                                    x.failed \cup ({canvasNum} \ writable)),
                             canvasesToSave, i + 1, writable)))

saveAllRemainingCanvases(e, canvasesToSave, currentPrompt, writable) ==
    With(saveAllLoop(Exited(e, {}, {}), canvasesToSave, currentPrompt, writable), LAMBDA x :
       Exited(syncCanvasToEditor([x.e EXCEPT !.currentCanvas = e.currentCanvas]),
              x.wrote, x.failed))

\* The canvases checkAllCanvases finds with unsaved changes.
UnsavedCanvases(e) == {n \in DOMAIN e.canvases : e.canvases[n].dirty}

\* The orders in which the range statement over the map of canvases may
\* yield them.
CanvasOrders(ids) ==
    {o \in [1 .. Cardinality(ids) -> ids] : \A i, j \in DOMAIN o : o[i] = o[j] => i = j}

\* handleExitWithCanvasCheck, with checkAllCanvases; order is canvasesToSave.
handleExitWithCanvasCheck(e, order) ==
    With(syncEditorToCanvas(e), LAMBDA e0 :
       IF Len(order) > 0
       THEN promptForCanvasSave([e0 EXCEPT !.prompt = NoPrompt], order, 0, order[1])
       ELSE finishExit(e0))

\* strings.ToLower on the letters of the answers.
ToLower(t) ==
    [i \in DOMAIN t |->
        IF t[i] = "Y" THEN "y" ELSE IF t[i] = "N" THEN "n"
        ELSE IF t[i] = "A" THEN "a" ELSE IF t[i] = "C" THEN "c" ELSE t[i]]

\* The case the switch of promptForCanvasSave takes.
exitAnswer(input) ==
    With(ToLower(TrimSpace(input)), LAMBDA t :
       IF t \in {<< "y" >>, << "y", "e", "s" >>} THEN "yes"
       ELSE IF t \in {<< "n" >>, << "n", "o" >>} THEN "no"
       ELSE IF t \in {<< "a" >>, << "a", "l", "l" >>} THEN "all"
       ELSE IF t \in {<< "c" >>, << "c", "a", "n", "c", "e", "l" >>} THEN "cancel"
       ELSE "again")

\* The callback of promptForCanvasSave; p is the prompt that was answered.
promptExit(e, p, input, writable) ==
    With(exitAnswer(input), LAMBDA answer :
       IF answer = "yes"
       THEN With(saveCanvas(e, p.canvasNum, writable), LAMBDA x :
               Exited(processNextCanvas(x.e, p.canvasesToSave, p.currentPrompt),
                      x.wrote, x.failed))
       ELSE IF answer = "no"
       THEN Exited(processNextCanvas(e, p.canvasesToSave, p.currentPrompt), {}, {})
       ELSE IF answer = "all"
       THEN With(saveAllRemainingCanvases(e, p.canvasesToSave, p.currentPrompt, writable),
                 LAMBDA x : Exited(finishExit(x.e), x.wrote, x.failed))
       ELSE IF answer = "cancel"
       THEN Exited(cancelExit(e), {}, {})
       ELSE Exited(promptForCanvasSave(e, p.canvasesToSave, p.currentPrompt, p.canvasNum),
                   {}, {}))

\* The callback of the "Save as" prompt of saveCanvas.
promptExitSaveAs(e, p, input, writable) ==
    With(TrimSpace(input), LAMBDA path :
    With(IF path = << >> THEN e
         ELSE persistCanvas([e EXCEPT !.filename = path], p.canvasNum \in writable),
         LAMBDA e1 :
       Exited(syncCanvasToEditor([e1 EXCEPT !.currentCanvas = p.oldCanvas]),
              IF path = << >> THEN {} ELSE {p.canvasNum} \cap writable,
              IF path = << >> THEN {} ELSE {p.canvasNum} \ writable)))

\* What is typed into the prompts of the exit flow.
ExitAnswers == {<< "y" >>, << " ", "Y" >>, << "n" >>, << "a" >>, << "c" >>, << "x" >>, << >>}

\* The history of the exit flow begun by the last Ctrl+Q: the canvases it
\* found with unsaved changes, those that have got an answer, those the
\* user has answered yes for, those written and those whose write failed.
ExitHistory(found) ==
    [fn |-> "exit", found |-> found, answered |-> {}, yes |-> {}, wrote |-> {},
     failed |-> {}, cancelled |-> FALSE]

\* One iteration of the loop of Run for a key of the exit flow: the loop
\* renders again only while quit is not set.
CompleteExit(name, x, history) ==
    /\ nkeys < budget
    /\ ~crashed
    /\ ~quit
    /\ inflight = NoFlight
    /\ x.e.timers <= MaxTimers
    /\ Commit(IF x.e.quit THEN x.e ELSE render(x.e))
    /\ nkeys' = nkeys + 1
    /\ lastKey' = [name |-> name, kind |-> "other", ops |-> 0]
    /\ probe' = history
    /\ UNCHANGED << inflight, budget, prevEd, opEd, run, saved, undone, leftAs, switches >>

KeyCtrlQ ==
    /\ NoPromptOpen
    /\ \E order \in CanvasOrders(UnsavedCanvases(syncEditorToCanvas(Ed))) :
          CompleteExit("CtrlQ", Exited(handleExitWithCanvasCheck(Ed, order), {}, {}),
                       ExitHistory(UnsavedCanvases(syncEditorToCanvas(Ed))))

\* Enter in a prompt of the exit flow: the prompt is closed and its
\* callback runs.
PromptExit ==
    /\ prompt.kind \in {"exit", "exitsaveas"}
    /\ probe.fn = "exit"
    /\ \E input \in ExitAnswers, writable \in SUBSET DOMAIN canvases :
          With(IF prompt.kind = "exit"
               THEN promptExit([Ed EXCEPT !.prompt = NoPrompt], prompt, input, writable)
               ELSE promptExitSaveAs([Ed EXCEPT !.prompt = NoPrompt], prompt, input, writable),
               LAMBDA x :
             With(IF prompt.kind = "exit" THEN exitAnswer(input) ELSE "path", LAMBDA answer :
                CompleteExit(answer, x,
                   [probe EXCEPT
                      !.answered = @ \cup (IF answer \in {"yes", "no"} THEN {prompt.canvasNum}
                                           ELSE IF answer = "all"
                                           THEN {prompt.canvasesToSave[i] :
                                                   i \in (prompt.currentPrompt + 1) ..
                                                         Len(prompt.canvasesToSave)}
                                           ELSE {}),
                      !.yes = @ \cup (IF answer = "yes" THEN {prompt.canvasNum} ELSE {}),
                      !.wrote = @ \cup x.wrote,
                      !.failed = @ \cup x.failed,
                      !.cancelled = @ \/ answer = "cancel"])))

InitExit ==
    \E path \in StartPaths : Load(refreshSize(NewEditor(path), ScreenW, ScreenH), MaxExitKeys)

NextExit ==
    \/ KeyRune
    \/ KeyCtrlN \/ KeyCtrlB
    \/ KeyCtrlQ \/ PromptExit \/ PromptEscape

SpecExit == InitExit /\ [][NextExit]_vars

\* C38: quit is set only after every canvas found with unsaved changes has
\* got an answer, never by cancel, only after every canvas the user has
\* answered yes for was written (or its write was tried and failed), and
\* never while a "Save as" prompt of the exit flow is open.
C38_QuitOnlyAfterSaves ==
    quit =>
       /\ probe.fn = "exit"
       /\ probe.found \subseteq probe.answered
       /\ ~probe.cancelled
       /\ probe.yes \subseteq (probe.wrote \cup probe.failed)
       /\ prompt.kind # "exitsaveas"

\* ---------------------------------------------------------------------
\* findAndJump on its own: every document of up to MaxFindLines lines of
\* up to MaxFindLen letters, every valid cursor, the queries of FindQueries.

MaxFindLines == 2

MaxFindLen == 3

FindDocs == SeqsUpTo(SeqsUpTo({"a", "b"}, MaxFindLen), MaxFindLines) \ {<< >>}

FindQueries == {<< >>, << " " >>, << "a" >>, << "b", " " >>, << "a", "b" >>}

\* findAndJump ends in statusMessage("Not found: " + q): the query is not
\* blank and the loop over the lines has found no match.
findReportsNotFound(e, query) ==
    /\ TrimSpace(query) # << >>
    /\ findNext(e.lines, TrimSpace(query), e.cy, e.cx)[1] < 0

InitFind ==
    \E ls \in FindDocs, y \in 0 .. MaxFindLines - 1, x \in 0 .. MaxFindLen :
        /\ IsPosition(ls, y, x)
        /\ Load([refreshSize(NewEditor(NoFile), ScreenW, ScreenH) EXCEPT
                    !.lines = ls, !.cx = x, !.cy = y], 0)

FindAndJump ==
    /\ probe = NoProbe
    /\ \E query \in FindQueries :
          /\ Commit(findAndJump(Ed, query))
          /\ probe' = [fn |-> "findAndJump", before |-> Ed, query |-> query,
                       notFound |-> findReportsNotFound(Ed, query)]
    /\ UNCHANGED << inflight, budget, nkeys, lastKey, prevEd, opEd, run, saved, undone, leftAs, switches >>

NextFind == FindAndJump

SpecFind == InitFind /\ [][NextFind]_vars

\* q occurs in the document at line y (0-based), column x.
OccursAt(ls, q, y, x) == y < Len(ls) /\ matchAt(LineAt(ls, y), q, x)

\* q occurs somewhere in the document.
Occurs(ls, q) ==
    \E y \in 0 .. Len(ls) - 1 : \E x \in 0 .. Len(LineAt(ls, y)) : OccursAt(ls, q, y, x)

\* The distance from the position just after (cy, cx) forward to (y, x) in
\* the order that wraps from the end of the document to its start and ends
\* at (cy, cx) itself; w is more than the length of any line.
ForwardDistance(ls, y0, x0, y, x, w) ==
    IF y = y0 /\ x > x0 THEN x - x0
    ELSE IF y = y0 THEN Len(ls) * w + x
    ELSE ((y - y0 + Len(ls)) % Len(ls)) * w + x

\* C39: with a query that is not blank, findAndJump puts the cursor on the
\* first occurrence after the cursor in the order that wraps around the end
\* of the document back to the cursor, whenever the document has an
\* occurrence; it reports "Not found" and leaves the cursor where it was
\* exactly when the document has none.
C39_FindsEveryOccurrence ==
    (probe.fn = "findAndJump" /\ TrimSpace(probe.query) # << >>) =>
       With(TrimSpace(probe.query), LAMBDA q :
       With(probe.before, LAMBDA b :
          IF Occurs(b.lines, q)
          THEN /\ ~probe.notFound
               /\ lines = b.lines
               /\ OccursAt(lines, q, cy, cx)
               /\ \A y \in 0 .. Len(lines) - 1 : \A x \in 0 .. Len(LineAt(lines, y)) :
                     OccursAt(lines, q, y, x) =>
                        ForwardDistance(lines, b.cy, b.cx, cy, cx, MaxFindLen + 1)
                           <= ForwardDistance(lines, b.cy, b.cx, y, x, MaxFindLen + 1)
          ELSE /\ probe.notFound
               /\ << lines, cx, cy >> = << b.lines, b.cx, b.cy >>))

\* ---------------------------------------------------------------------
\* The anchor of the selection under the keys that select and the keys that
\* change the document, SpecAnchor.

MaxAnchorKeys == 5

InitAnchor ==
    \E path \in StartPaths : Load(refreshSize(NewEditor(path), ScreenW, ScreenH), MaxAnchorKeys)

NextAnchor ==
    \/ KeyRune
    \/ KeyLeft \/ KeyRight \/ KeyEnd \/ KeyEscape
    \/ KeyDelete \/ KeyCtrlK \/ KeyCtrlU \/ KeyCtrlY

SpecAnchor == InitAnchor /\ [][NextAnchor]_vars

\* C40: while a selection is active its anchor is a position of the
\* document after every key event the editor has handled.
C40_AnchorStaysInDocument ==
    (selecting /\ ~crashed) =>
       /\ 0 <= selectStartY /\ 0 <= selectStartX
       /\ IsPosition(lines, selectStartY, selectStartX)

====
